---- MODULE Spec2Model ----
(***************************************************************************)
(* A model of the categorisation core of ccs-extract:                      *)
(*   transaction_rules.py       TransactionRulesEngine                     *)
(*   transaction_categories.py  load_custom_config, normalize_merchant,    *)
(*                              categorize_transaction                     *)
(*   ccs_extract.py             CreditCardStatementExtractor               *)
(*                                                                         *)
(* Python values are modelled as follows.                                  *)
(*   str            a TLA+ string                                          *)
(*   Optional[T]    None is << >>, a present value v is << v >>            *)
(*   float amounts  whole numbers                                          *)
(*   datetime       a record [year, month, day, hour, minute]              *)
(*   dict           a function whose DOMAIN is the set of keys present     *)
(*   JSON scalar    [type, num, str] (JNum, JStr)                          *)
(***************************************************************************)
EXTENDS Integers, Sequences, FiniteSets, TLC

VARIABLES
    rules,              \* TransactionRulesEngine.rules: the list apply_rules walks
    history,            \* ghost: the rules now in `rules`, in the order they arrived
    config_file,        \* transaction_config.json beside transaction_categories.py
    imported,           \* transaction_categories has been imported
    MERCHANT_PATTERNS,  \* transaction_categories.MERCHANT_PATTERNS
    CATEGORIES,         \* transaction_categories.CATEGORIES
    config,             \* CreditCardStatementExtractor.config
    transaction_patterns, \* CreditCardStatementExtractor.transaction_patterns
    statement_text,     \* CreditCardStatementExtractor.statement_text
    csv_file,           \* the CSV file at the output path
    debug_file,         \* the debug text file beside the PDF
    stages,             \* ghost: the stages the last process_statement entered
    last                \* the most recent call and what it gave

engine_vars == <<rules, history>>
module_vars == <<config_file, imported, MERCHANT_PATTERNS, CATEGORIES>>
statement_vars == <<statement_text, csv_file, debug_file, stages>>
vars == <<rules, history, config_file, imported, MERCHANT_PATTERNS, CATEGORIES, config,
          transaction_patterns, statement_text, csv_file, debug_file, stages, last>>

---------------------------------------------------------------------------
(* Strings.                                                                *)

None == << >>
Some(v) == << v >>

Slice(s, i, j) ==
    IF i > j \/ i > Len(s) \/ j < 1 THEN ""
    ELSE SubSeq(s, IF i < 1 THEN 1 ELSE i, IF j > Len(s) THEN Len(s) ELSE j)

Char(s, i) == Slice(s, i, i)

UpperAlpha == "ABCDEFGHIJKLMNOPQRSTUVWXYZ"
LowerAlpha == "abcdefghijklmnopqrstuvwxyz"

LowerOf == [c \in {SubSeq(UpperAlpha, i, i) : i \in 1..26} |->
               LET i == CHOOSE k \in 1..26 : SubSeq(UpperAlpha, k, k) = c
               IN SubSeq(LowerAlpha, i, i)]

LowerChar(c) == IF c \in DOMAIN LowerOf THEN LowerOf[c] ELSE c

\* str.lower()
RECURSIVE lower(_)
lower(s) == IF s = "" THEN "" ELSE LowerChar(Char(s, 1)) \o lower(Slice(s, 2, Len(s)))

\* `needle in haystack` on Python strings: a contiguous, case-sensitive substring
str_in(needle, haystack) ==
    \E i \in 1..(Len(haystack) - Len(needle) + 1) :
        Slice(haystack, i, i + Len(needle) - 1) = needle

startswith(s, prefix) == Slice(s, 1, Len(prefix)) = prefix

---------------------------------------------------------------------------
(* re.search(pattern, string, re.IGNORECASE) for the pattern language the  *)
(* repository uses: literals, '.', backslash escapes, \s, groups (...) and *)
(* (?:...), the quantifiers ? + *, alternation, and a leading (?i).        *)
(* XEnds(p, s, S) is the set of positions at which a match of p that       *)
(* starts at a position of S can end; s is the subject in lower case, and  *)
(* a literal of the pattern is compared in lower case (IGNORECASE).        *)

RECURSIVE TopBar(_, _, _)
TopBar(p, i, depth) ==
    IF i > Len(p) THEN 0
    ELSE LET c == Char(p, i) IN
         IF c = "\\" THEN TopBar(p, i + 2, depth)
         ELSE IF c = "(" THEN TopBar(p, i + 1, depth + 1)
         ELSE IF c = ")" THEN TopBar(p, i + 1, depth - 1)
         ELSE IF c = "|" /\ depth = 0 THEN i
         ELSE TopBar(p, i + 1, depth)

RECURSIVE CloseParen(_, _, _)
CloseParen(p, i, depth) ==
    IF i > Len(p) THEN 0
    ELSE LET c == Char(p, i) IN
         IF c = "\\" THEN CloseParen(p, i + 2, depth)
         ELSE IF c = "(" THEN CloseParen(p, i + 1, depth + 1)
         ELSE IF c = ")" THEN (IF depth = 1 THEN i ELSE CloseParen(p, i + 1, depth - 1))
         ELSE CloseParen(p, i + 1, depth)

AtomLen(p) ==
    IF Char(p, 1) = "\\" THEN 2
    ELSE IF Char(p, 1) = "(" THEN CloseParen(p, 1, 0)
    ELSE 1

IsSpace(c) == c \in {" ", "\t", "\n"}

RECURSIVE ReEnds(_, _, _)
RECURSIVE SeqEnds(_, _, _)
RECURSIVE AtomEnds(_, _, _)
RECURSIVE Star(_, _, _)

AtomEnds(atom, s, S) ==
    LET c == Char(atom, 1) IN
    IF c = "." THEN {i + 1 : i \in {j \in S : j <= Len(s)}}
    ELSE IF c = "\\" THEN
         LET e == Char(atom, 2) IN
         IF e = "s" THEN {i + 1 : i \in {j \in S : j <= Len(s) /\ IsSpace(Char(s, j))}}
         ELSE {i + 1 : i \in {j \in S : j <= Len(s) /\ Char(s, j) = LowerChar(e)}}
    ELSE IF c = "(" THEN
         LET inner == IF Slice(atom, 1, 3) = "(?:"
                      THEN Slice(atom, 4, Len(atom) - 1)
                      ELSE Slice(atom, 2, Len(atom) - 1)
         IN ReEnds(inner, s, S)
    ELSE {i + 1 : i \in {j \in S : j <= Len(s) /\ Char(s, j) = LowerChar(c)}}

Star(atom, s, S) ==
    LET T == S \cup AtomEnds(atom, s, S) IN IF T = S THEN S ELSE Star(atom, s, T)

SeqEnds(p, s, S) ==
    IF p = "" \/ S = {} THEN S
    ELSE LET a == AtomLen(p)
             atom == Slice(p, 1, a)
             q == Char(p, a + 1)
             quantified == q \in {"?", "+", "*"}
             rest == Slice(p, a + (IF quantified THEN 2 ELSE 1), Len(p))
         IN IF q = "?" THEN SeqEnds(rest, s, S \cup AtomEnds(atom, s, S))
            ELSE IF q = "+" THEN SeqEnds(rest, s, Star(atom, s, AtomEnds(atom, s, S)))
            ELSE IF q = "*" THEN SeqEnds(rest, s, Star(atom, s, S))
            ELSE SeqEnds(rest, s, AtomEnds(atom, s, S))

ReEnds(p, s, S) ==
    LET k == TopBar(p, 1, 0) IN
    IF k = 0 THEN SeqEnds(p, s, S)
    ELSE SeqEnds(Slice(p, 1, k - 1), s, S) \cup ReEnds(Slice(p, k + 1, Len(p)), s, S)

StripFlag(p) == IF Slice(p, 1, 4) = "(?i)" THEN Slice(p, 5, Len(p)) ELSE p

re_search(pattern, string) ==
    ReEnds(StripFlag(pattern), lower(string), 1..(Len(string) + 1)) # {}

---------------------------------------------------------------------------
(* JSON scalars and Python conversions of them.                            *)

JNum(n) == [type |-> "number", num |-> n, str |-> ""]
JStr(s) == [type |-> "string", num |-> 0, str |-> s]

Digits == "0123456789"
IsDigit(c) == c # "" /\ str_in(c, Digits)
DigitVal(c) == CHOOSE d \in 0..9 : Char(Digits, d + 1) = c

RECURSIVE AllDigits(_)
AllDigits(s) == s = "" \/ (IsDigit(Char(s, 1)) /\ AllDigits(Slice(s, 2, Len(s))))

RECURSIVE ToInt(_)
ToInt(s) == IF s = "" THEN 0
            ELSE 10 * ToInt(Slice(s, 1, Len(s) - 1)) + DigitVal(Char(s, Len(s)))

\* dict.get(key, default)
Get(d, key, default) == IF key \in DOMAIN d THEN d[key] ELSE default

\* dict.get(key), whose default is None
GetOpt(d, key) == IF key \in DOMAIN d THEN Some(d[key]) ELSE None

\* float(v) raises ValueError on a string that is not a number
float_raises(v) == v.type = "string" /\ (v.str = "" \/ ~AllDigits(v.str))
float(v) == IF v.type = "number" THEN v.num ELSE ToInt(v.str)

---------------------------------------------------------------------------
(* datetime.strptime(value, '%Y-%m-%d') and datetime.date().               *)

DateTime(y, mo, d, h, mi) == [year |-> y, month |-> mo, day |-> d, hour |-> h, minute |-> mi]

\* a datetime compared with its time of day
DateWithTime(dt) == <<dt.year, dt.month, dt.day, dt.hour, dt.minute>>

date_of(dt) == <<dt.year, dt.month, dt.day>>

IsLeap(y) == (y % 4 = 0 /\ y % 100 # 0) \/ y % 400 = 0

DaysInMonth(y, mo) ==
    IF mo = 2 THEN (IF IsLeap(y) THEN 29 ELSE 28)
    ELSE IF mo \in {4, 6, 9, 11} THEN 30 ELSE 31

RECURSIVE IndexOf(_, _, _)
IndexOf(s, c, from) ==
    IF from > Len(s) THEN 0
    ELSE IF Char(s, from) = c THEN from ELSE IndexOf(s, c, from + 1)

\* None stands for the ValueError strptime raises on a string it cannot parse.
strptime(value) ==
    LET i1 == IndexOf(value, "-", 1)
        i2 == IF i1 = 0 THEN 0 ELSE IndexOf(value, "-", i1 + 1)
        ys == Slice(value, 1, i1 - 1)
        ms == Slice(value, i1 + 1, i2 - 1)
        ds == Slice(value, i2 + 1, Len(value))
        shaped == /\ i1 # 0 /\ i2 # 0
                  /\ Len(ys) = 4 /\ AllDigits(ys)
                  /\ Len(ms) \in {1, 2} /\ AllDigits(ms)
                  /\ Len(ds) \in {1, 2} /\ AllDigits(ds)
    IN IF ~shaped THEN None
       ELSE LET y == ToInt(ys)  mo == ToInt(ms)  d == ToInt(ds) IN
            IF y >= 1 /\ mo \in 1..12 /\ d >= 1 /\ d <= DaysInMonth(y, mo)
            THEN Some(DateTime(y, mo, d, 0, 0))
            ELSE None

\* the order of datetime.date values
date_lt(a, b) ==
    \/ a[1] < b[1]
    \/ a[1] = b[1] /\ a[2] < b[2]
    \/ a[1] = b[1] /\ a[2] = b[2] /\ a[3] < b[3]

---------------------------------------------------------------------------
(* transaction_rules.py: TransactionRule and TransactionRulesEngine.       *)

\* An operation either returns a value or raises an exception.
Return(v) == [exc |-> "", ret |-> v]
Raise(e) == [exc |-> e, ret |-> None]

\* the dataclass and its defaults (the unused field `description` is left out)
TransactionRule(name, pattern, category, priority, amount_condition, date_condition, is_regex) ==
    [name |-> name, pattern |-> pattern, category |-> category, priority |-> priority,
     amount_condition |-> amount_condition, date_condition |-> date_condition,
     is_regex |-> is_regex]

_parse_rule(rule_data) ==
    TransactionRule(Get(rule_data, "name", ""),
                    Get(rule_data, "pattern", ""),
                    Get(rule_data, "category", "Other"),
                    Get(rule_data, "priority", 0),
                    GetOpt(rule_data, "amount_condition"),
                    GetOpt(rule_data, "date_condition"),
                    Get(rule_data, "is_regex", TRUE))

\* add_rule without its re-sort: the rule stays where append put it
InsertAtEnd(sorted, rule) == Append(sorted, rule)

\* a sort that is not stable: a rule goes in front of the rules of its own priority
InsertBeforeEquals(sorted, rule) ==
    LET k == Cardinality({i \in 1..Len(sorted) : sorted[i].priority > rule.priority})
    IN SubSeq(sorted, 1, k) \o <<rule>> \o SubSeq(sorted, k + 1, Len(sorted))

\* list.sort(key=lambda x: x.priority, reverse=True): Python's sort is stable,
\* with reverse=True too, so a rule lands behind every rule already there whose
\* priority is at least its own.
InsertByPriority(sorted, rule) ==
    LET k == Cardinality({i \in 1..Len(sorted) : sorted[i].priority >= rule.priority})
    IN SubSeq(sorted, 1, k) \o <<rule>> \o SubSeq(sorted, k + 1, Len(sorted))

RECURSIVE sort_by_priority(_)
sort_by_priority(rs) ==
    IF rs = <<>> THEN <<>>
    ELSE InsertByPriority(sort_by_priority(SubSeq(rs, 1, Len(rs) - 1)), rs[Len(rs)])

---------------------------------------------------------------------------
(* The inputs the engine is driven with.                                   *)

MaxRules == 3

AmountGE100 == Some([operator |-> ">=", value |-> JNum(100)])
DateEq20240101 == Some([operator |-> "==", value |-> JStr("2024-01-01")])

\* the rules of src/test_transaction_rules.py (sample_rules, test_non_regex_pattern)
TestGroceries == TransactionRule("Test Groceries", "COLES|WOOLWORTHS", "Groceries", 1, None, None, TRUE)
HighValueGroceries ==
    TransactionRule("High Value Groceries", "COLES|WOOLWORTHS", "Special Groceries", 2,
                    AmountGE100, None, TRUE)
DateSpecific == TransactionRule("Date Specific", "TEST", "Special", 1, None, DateEq20240101, TRUE)
ExactMatch == TransactionRule("Exact Match", "EXACT MATCH", "Test", 1, None, None, FALSE)
\* a rule that ties with Test Groceries on priority and on matching descriptions
Supermarkets == TransactionRule("Supermarkets", "SUPERMARKET", "Supermarket", 1, None, None, TRUE)

RulePool == {TestGroceries, HighValueGroceries, DateSpecific, ExactMatch, Supermarkets}

\* the contents a rules file can have: the parsed JSON, or why there is none
RulesFile(kind, items) == [kind |-> kind, items |-> items]

TestRuleData == [name |-> "Test Rule", pattern |-> "TEST", category |-> "Test Category", priority |-> 1]
ColesData == [name |-> "Coles", pattern |-> "COLES", category |-> "Groceries", priority |-> 1]
BigColesData ==
    [name |-> "Big Coles", pattern |-> "coles", category |-> "Big Shop", priority |-> 5,
     amount_condition |-> [operator |-> ">", value |-> JNum(100)], is_regex |-> FALSE]
NoPriorityData == [name |-> "Anything", pattern |-> "STORE", category |-> "Shops"]
\* a literal pattern that reads differently as a regular expression
DottedData ==
    [name |-> "Dotted", pattern |-> "UNKNOWN.STORE", category |-> "Dotted", priority |-> 2,
     is_regex |-> FALSE]

\* A rules file: no file, text that is not JSON, or JSON whose top-level value is a
\* list, an object, a string, a number or null; items is what iterating that value
\* yields (the elements of a list, the keys of an object, the characters of a string).
RuleFiles ==
    { RulesFile("missing", <<>>),
      RulesFile("invalid_json", <<>>),
      RulesFile("list", <<>>),
      RulesFile("list", <<TestRuleData>>),
      RulesFile("list", <<ColesData, BigColesData, TestRuleData>>),
      RulesFile("list", <<NoPriorityData, TestRuleData, BigColesData>>),
      RulesFile("list", <<DottedData, NoPriorityData>>),
      RulesFile("list", <<TestRuleData, JNum(1)>>),
      RulesFile("object", <<>>),
      RulesFile("object", <<JStr("rules")>>),
      RulesFile("string", <<>>),
      RulesFile("string", <<JStr("a"), JStr("b")>>),
      RulesFile("number", <<>>),
      RulesFile("null", <<>>) }

\* A priority that is text, the JSON string "high": the model holds priorities as
\* numbers, and the string as one number that no numeric priority of its inputs
\* takes. Python orders text with text and numbers with numbers, never the two.
TextPriority == 0 - 1

\* rules files whose priorities are text: alone, beside numbers, and all of them
MixedPriorityFiles ==
    LET high(rule_data) == [rule_data EXCEPT !.priority = TextPriority]
    IN { RulesFile("list", <<high(TestRuleData)>>),
         RulesFile("list", <<high(ColesData), high(TestRuleData)>>),
         RulesFile("list", <<ColesData, high(TestRuleData)>>),
         RulesFile("list", <<high(ColesData), BigColesData, TestRuleData>>),
         RulesFile("list", <<TestRuleData, BigColesData, high(ColesData)>>) }

Descriptions ==
    {"COLES SUPERMARKET", "TEST TRANSACTION", "UNKNOWN STORE",
     "THIS IS AN EXACT MATCH TEST", "EXACT"}

Amounts == {50, 100, 150}

Dates == {DateTime(2024, 1, 1, 0, 0), DateTime(2024, 1, 1, 23, 59), DateTime(2024, 1, 2, 0, 0)}

\* rules files of one rule with one condition, over the operators the predicates
\* know and some they do not
OperatorFiles ==
    LET Operators == {"==", ">", ">=", "<", "<=", "!=", "=>", "<>", "=", ""}
    IN { RulesFile("list", << [name |-> "Amount", pattern |-> "COLES", category |-> "Matched",
                               priority |-> 1,
                               amount_condition |-> [operator |-> o, value |-> JNum(100)]] >>) :
           o \in Operators }
       \cup
       { RulesFile("list", << [name |-> "Date", pattern |-> "COLES", category |-> "Matched",
                               priority |-> 1,
                               date_condition |-> [operator |-> c[1], value |-> JStr(c[2])]] >>) :
           c \in Operators \X {"2024-01-01", "2024-01-02"} }

---------------------------------------------------------------------------
(* transaction_categories.py: the built-in tables.                         *)

\* DEFAULT_MERCHANT_PATTERNS, in the order of the source. The one accented
\* alternative of the Nestle pattern is left out and the accent of its canonical
\* name dropped: the descriptions used here are ASCII.
DEFAULT_MERCHANT_PATTERNS ==
    << <<"(?i)woolworths(?:\\s+supermarket)?|woolies", "Woolworths">>,
       <<"(?i)coles(?:\\s+supermarket)?", "Coles">>,
       <<"(?i)aldi(?:\\s+store)?", "Aldi">>,
       <<"(?i)iga", "IGA">>,
       <<"(?i)nestle|nestleau|nestleaust", "Nestle Australia">>,
       <<"(?i)nespresso australia", "Nespresso Australia">>,
       <<"(?i)soul origin", "Soul Origin">>,
       <<"(?i)space kitchen", "Space Kitchen">>,
       <<"(?i)bean origin", "Bean Origin">>,
       <<"(?i)bliss and espresso macquarie", "Bliss and Espresso Macquarie">>,
       <<"(?i)sushi sushi", "Sushi Sushi">>,
       <<"(?i)tfc sushi", "TFC Sushi">>,
       <<"(?i)zambrero", "Zambrero">>,
       <<"(?i)the spence grocer", "The Spence Grocer">>,
       <<"(?i)mcdonalds|mcdonald\\'s|maccas", "McDonald's">>,
       <<"(?i)millsandgrills", "Mills and Grills">>,
       <<"(?i)dickson taphouse", "Dickson Taphouse">>,
       <<"(?i)cafe|coffee", "Cafe">>,
       <<"(?i)restaurant|dining", "Restaurant">>,
       <<"(?i)pub|tavern", "Pub">>,
       <<"(?i)captains flat hote", "Captains Flat Hotel">>,
       <<"(?i)petpostaust", "PetPost Australia">>,
       <<"(?i)k9 and co adventure", "K9 and Co Adventure">>,
       <<"(?i)petstock pty ltd", "Petstock Pty Ltd">>,
       <<"(?i)petbarn", "Petbarn">>,
       <<"(?i)vet|veterinary", "Veterinarian">>,
       <<"(?i)pet warehouse", "Pet Warehouse">>,
       <<"(?i)pet circle", "Pet Circle">>,
       <<"(?i)pet shop", "Pet Shop">>,
       <<"(?i)uber", "Uber">>,
       <<"(?i)taxi|cab", "Taxi">>,
       <<"(?i)translink|go card", "Public Transport">>,
       <<"(?i)transport dickson", "Transport Dickson">>,
       <<"(?i)netflix", "Netflix">>,
       <<"(?i)spotify", "Spotify">>,
       <<"(?i)amazon", "Amazon">>,
       <<"(?i)apple\\.com|itunes", "Apple">>,
       <<"(?i)ticketek", "Ticketek">>,
       <<"(?i)hoyts", "Hoyts">>,
       <<"(?i)www\\.endota\\.com\\.au", "Endota Spa">>,
       <<"(?i)origin energy", "Origin Energy">>,
       <<"(?i)agl", "AGL">>,
       <<"(?i)telstra", "Telstra">>,
       <<"(?i)optus", "Optus">>,
       <<"(?i)belong", "Belong">>,
       <<"(?i)7-eleven|7 eleven|-eleven", "7-Eleven">>,
       <<"(?i)bp|british petroleum", "BP">>,
       <<"(?i)shell", "Shell">>,
       <<"(?i)caltex", "Caltex">>,
       <<"(?i)united petroleum", "United Petroleum">>,
       <<"(?i)accor", "Accor">>,
       <<"(?i)amcal|amcal pharmacy", "Amcal Pharmacy">>,
       <<"(?i)endota spa", "Endota Spa">>,
       <<"(?i)belconnen chiro", "Belconnen Chiropractor">>,
       <<"(?i)specsavers", "Specsavers">>,
       <<"(?i)bunnings|bunnings warehouse", "Bunnings Warehouse">>,
       <<"(?i)mitre 10|mitre10", "Mitre 10">>,
       <<"(?i)home hardware", "Home Hardware">>,
       <<"(?i)hardware store|hardware shop", "Hardware Store">>,
       <<"(?i)jb hi-fi|jb hifi|jbhifi|jb hi fi", "JB Hi-Fi">>,
       <<"(?i)harvey norman|harveynorman", "Harvey Norman">>,
       <<"(?i)the good guys|good guys", "The Good Guys">>,
       <<"(?i)officeworks", "Officeworks">>,
       <<"(?i)budget direct", "Budget Direct">>,
       <<"(?i)nrma", "NRMA">>,
       <<"(?i)racq", "RACQ">>,
       <<"(?i)racv", "RACV">>,
       <<"(?i)aami", "AAMI">>,
       <<"(?i)miles franklin", "Miles Franklin">>,
       <<"(?i)bounce holdings", "Bounce Holdings">>,
       <<"(?i)melba tennis club", "Melba Tennis Club">>,
       <<"(?i)on the line tennis melba", "On The Line Tennis Melba">>,
       <<"(?i)school|college|university|tafe", "Educational Institution">>,
       <<"(?i)harris scarfe", "Harris Scarfe">>,
       <<"(?i)best and less", "Best and Less">>,
       <<"(?i)smiggle pty ltd", "Smiggle">>,
       <<"(?i)canberra southern yarralumla", "Canberra Southern Yarralumla">>,
       <<"(?i)rocksalt", "Rocksalt">>,
       <<"(?i)via dolce canberra", "Via Dolce Canberra">>,
       <<"(?i)supermarket", "Generic Supermarket">> >>

\* DEFAULT_CATEGORIES: a dict keeps its insertion order, so the map is the sequence
\* of its items (a keyword with an accent is left out, as above).
DEFAULT_CATEGORIES ==
    << [name |-> "Groceries", keywords |->
          <<"woolworths", "coles", "aldi", "iga", "supermarket", "foodworks", "nestle",
            "nestleau", "nespresso australia", "supa express">>],
       [name |-> "Dining", keywords |->
          <<"restaurant", "cafe", "coffee", "pub", "tavern", "bistro", "soul origin",
            "space kitchen", "bean origin", "bliss and espresso macquarie", "sushi sushi",
            "tfc sushi", "zambrero", "the spence grocer", "mcdonalds", "mcdonald's",
            "maccas", "millsandgrills", "mills and grills", "dickson taphouse",
            "canberra southern yarralumla", "rocksalt", "via dolce canberra",
            "captains flat hotel", "bravo vino pty ltd">>],
       [name |-> "Transport", keywords |->
          <<"uber", "taxi", "cab", "translink", "go card", "train", "bus", "parking",
            "car park", "parking fee", "parking ticket", "parking meter", "parking permit",
            "transport dickson">>],
       [name |-> "Entertainment", keywords |->
          <<"netflix", "spotify", "cinema", "movie", "theatre", "ticketek", "hoyts">>],
       [name |-> "Shopping", keywords |->
          <<"amazon", "ebay", "target", "kmart", "big w", "david jones", "myer",
            "harris scarfe", "best and less", "smiggle", "bunnings", "mitre 10",
            "home hardware", "hardware store", "hardware shop", "jb hi-fi", "jb hifi",
            "jbhifi", "jb hi fi", "harvey norman", "harveynorman", "the good guys",
            "good guys", "officeworks">>],
       [name |-> "Utilities", keywords |->
          <<"origin energy", "agl", "telstra", "optus", "belong", "electricity", "water",
            "gas">>],
       [name |-> "Health", keywords |->
          <<"pharmacy", "chemist", "medical", "doctor", "dental", "amcal", "endota spa",
            "www.endota.com.au", "belconnen chiro", "belconnen chiropractor", "specsavers">>],
       [name |-> "Education", keywords |->
          <<"university", "school", "college", "tafe", "course", "miles franklin",
            "bounce holdings", "educational institution", "melba tennis club",
            "on the line tennis melba">>],
       [name |-> "Insurance", keywords |->
          <<"insurance", "budget direct", "nrma", "racq", "racv", "aami">>],
       [name |-> "Fuel", keywords |->
          <<"7-eleven", "7 eleven", "-eleven", "bp", "shell", "caltex", "united petroleum",
            "petrol", "service station">>],
       [name |-> "Holiday", keywords |->
          <<"hotel", "motel", "resort", "accor", "vacation", "holiday", "accommodation">>],
       [name |-> "Pet Expenses", keywords |->
          <<"petpostaust", "k9 and co adventure", "petstock pty ltd", "petbarn", "vet",
            "veterinary", "pet warehouse", "pet circle", "pet shop", "pet", "animal",
            "pet care", "pet supplies", "animal hospital", "grooming", "pet food",
            "pet accessories", "pet medication">>],
       [name |-> "Other", keywords |->
          <<>>] >>

\* a (pattern, normalized) pair and an item of a category map
Pattern(pair) == pair[1]
Normalized(pair) == pair[2]

\* dict.keys(), in order
RECURSIVE Keys(_)
Keys(categories) ==
    IF categories = <<>> THEN <<>> ELSE <<Head(categories).name>> \o Keys(Tail(categories))

KeySet(categories) == {categories[i].name : i \in 1..Len(categories)}

\* categories[name], for a name among the keys
KeywordsOf(categories, name) ==
    categories[CHOOSE i \in 1..Len(categories) : categories[i].name = name].keywords

---------------------------------------------------------------------------
(* What transaction_config.json can hold.                                  *)

\* an item of the file's "merchant_patterns" array
Item(pattern, normalized) == [pattern |-> pattern, normalized |-> normalized]

ConfigFile(kind, merchant_patterns, categories) ==
    [kind |-> kind, merchant_patterns |-> merchant_patterns, categories |-> categories]

\* no file; a file json.load rejects; JSON that CONFIG_SCHEMA rejects
AbsentFile == ConfigFile("absent", <<>>, <<>>)
InvalidJsonFile == ConfigFile("invalid_json", <<>>, <<>>)
SchemaInvalidFile == ConfigFile("schema_invalid", <<>>, <<>>)

\* the config of the extractor fixture in src/test_ccs_extract.py
FixtureConfigFile ==
    ConfigFile("valid",
               << Item("(?i)test", "Test Merchant") >>,
               << [name |-> "Groceries", keywords |-> <<"COLES", "WOOLWORTHS">>],
                  [name |-> "Transport", keywords |-> <<"UBER", "TAXI">>],
                  [name |-> "Dining", keywords |-> <<"RESTAURANT", "CAFE">>] >>)

\* the config of a user who names a franchise outlet and a category of their own and
\* who redefines two built-in categories
OwnConfigFile ==
    ConfigFile("valid",
               << Item("(?i)coles express", "Coles Express"),
                  Item("(?i)mart", "Mart") >>,
               << [name |-> "Payments", keywords |-> <<"paypal">>],
                  [name |-> "Groceries", keywords |-> <<"coles express", "grocer">>],
                  [name |-> "Other", keywords |-> <<"misc">>] >>)

ConfigFiles == {AbsentFile, InvalidJsonFile, SchemaInvalidFile, FixtureConfigFile, OwnConfigFile}

\* the descriptions the module's functions are called with
ModuleDescriptions ==
    {"COLES SUPERMARKET", "COLES EXPRESS", "CAFE EXPRESS", "PET RESTAURANT",
     "STORE & SHOP", "SQ *STORE-MART", "PAYPAL *EBAY", "TEST TRANSACTION",
     "MISC FEES", "SQ *", "", "CAFE COLES", "PETROL STATION",
     "SQ *PAYPAL *EBAY", "PAYPAL *SQ *STORE-MART", "SQ *SQ *STORE-MART"}

---------------------------------------------------------------------------
(* transaction_categories.py: loading the tables.                          *)

\* json.dump of a string: a backslash goes before each quote and each backslash
\* (the strings of the tables are ASCII and hold no control character)
RECURSIVE json_dump_str(_)
json_dump_str(s) ==
    IF s = "" THEN ""
    ELSE (IF Char(s, 1) \in {"\"", "\\"} THEN "\\" ELSE "") \o Char(s, 1)
         \o json_dump_str(Slice(s, 2, Len(s)))

\* json.load of what json.dump wrote for a string: the character behind a
\* backslash is taken as it stands
RECURSIVE json_load_str(_)
json_load_str(text) ==
    IF text = "" THEN ""
    ELSE IF Char(text, 1) = "\\"
    THEN Char(text, 2) \o json_load_str(Slice(text, 3, Len(text)))
    ELSE Char(text, 1) \o json_load_str(Slice(text, 2, Len(text)))

\* what create_default_config dumps, as json.load reads it back: the patterns as
\* objects in the order of the list, the categories in the order of the dict
DefaultConfigFile ==
    LET dumped(s) == json_load_str(json_dump_str(s))
    IN ConfigFile("valid",
                  [i \in 1..Len(DEFAULT_MERCHANT_PATTERNS) |->
                      Item(dumped(Pattern(DEFAULT_MERCHANT_PATTERNS[i])),
                           dumped(Normalized(DEFAULT_MERCHANT_PATTERNS[i])))],
                  [i \in 1..Len(DEFAULT_CATEGORIES) |->
                      [name |-> dumped(DEFAULT_CATEGORIES[i].name),
                       keywords |-> [k \in 1..Len(DEFAULT_CATEGORIES[i].keywords) |->
                                        dumped(DEFAULT_CATEGORIES[i].keywords[k])]]])

\* create_default_config: the files it can leave at config_path. open can fail
\* (nothing is written), and so can the dump after open has truncated the file;
\* both are caught and reported only.
create_default_config == {DefaultConfigFile, AbsentFile, InvalidJsonFile}

\* a load that reads the categories of the file back to front
LoadCategoriesReversed(file) ==
    IF file.kind = "valid"
    THEN << [i \in 1..Len(file.merchant_patterns) |->
               <<file.merchant_patterns[i].pattern, file.merchant_patterns[i].normalized>>],
            [i \in 1..Len(file.categories) |->
               file.categories[Len(file.categories) + 1 - i]] >>
    ELSE <<DEFAULT_MERCHANT_PATTERNS, DEFAULT_CATEGORIES>>

\* the (merchant_patterns, categories) pair load_custom_config returns for a file
load_custom_config(file) ==
    IF file.kind = "valid"
    THEN << [i \in 1..Len(file.merchant_patterns) |->
               <<file.merchant_patterns[i].pattern, file.merchant_patterns[i].normalized>>],
            file.categories >>
    ELSE <<DEFAULT_MERCHANT_PATTERNS, DEFAULT_CATEGORIES>>

\* the files load_custom_config can leave behind
load_custom_config_files(file) ==
    IF file.kind = "absent" THEN create_default_config ELSE {file}

---------------------------------------------------------------------------
(* transaction_categories.py: normalize_merchant and categorize_transaction. *)

\* re.sub(r'^SQ \*', '', description) and its PayPal twin: a literal prefix,
\* removed at the start of the string only
remove_prefix(description, prefix) ==
    IF startswith(description, prefix)
    THEN Slice(description, Len(prefix) + 1, Len(description))
    ELSE description

StripNothing(description) == description

strip_prefixes(description) == remove_prefix(remove_prefix(description, "SQ *"), "PAYPAL *")

\* re.escape: a backslash before each character that is special in a pattern
SpecialChars == {"(", ")", "[", "]", "{", "}", "?", "*", "+", "-", "|", "^", "$",
                 "\\", ".", "&", "~", "#", " "}

RECURSIVE re_escape(_)
re_escape(s) ==
    IF s = "" THEN ""
    ELSE (IF Char(s, 1) \in SpecialChars THEN "\\" ELSE "") \o Char(s, 1)
         \o re_escape(Slice(s, 2, Len(s)))

---------------------------------------------------------------------------
(* The rules and transactions the extractor is exercised with.             *)

\* the rule of the fixture in src/test_transaction_rules.py
TestRule == TransactionRule("Test Rule", "TEST", "Test Category", 1, None, None, TRUE)

\* a rule whose category was left empty
Uncategorized == TransactionRule("Uncategorized", "COLES", "", 3, None, None, TRUE)

ExtractorRulePool == {TestRule, TestGroceries, HighValueGroceries, Uncategorized}

ExtractorDescriptions ==
    {"COLES SUPERMARKET", "TEST TRANSACTION", "PAYPAL *EBAY", "CAFE EXPRESS", "STORE & SHOP"}

ExtractorAmounts == {50, 150}

ExtractorDate == DateTime(2024, 1, 1, 0, 0)

\* rules a file or add_rule hands over with a condition value that is no number and
\* no date text: neither _parse_rule nor add_rule looks at the conditions
BadAmount ==
    TransactionRule("Bad Amount", "COLES", "Big Shop", 2,
                    Some([operator |-> ">", value |-> JStr("abc")]), None, TRUE)
NumericDate ==
    TransactionRule("Numeric Date", "TEST", "Dated", 1,
                    None, Some([operator |-> "==", value |-> JNum(20240101)]), TRUE)

\* with them, rules whose date value is in another format, is empty, is missing
ConditionRulePool ==
    { TestGroceries, HighValueGroceries, BadAmount, NumericDate,
      TransactionRule("Slash Date", "COLES", "Slash Dated", 3, None,
                      Some([operator |-> "==", value |-> JStr("01/01/2024")]), TRUE),
      TransactionRule("Empty Date", "COLES", "Empty Dated", 3, None,
                      Some([operator |-> ">=", value |-> JStr("")]), TRUE),
      TransactionRule("No Date Value", "COLES", "Undated", 3, None,
                      Some([operator |-> "<="]), TRUE) }

\* the transactions, an empty description and a zero amount among them
ConditionDescriptions == {"COLES SUPERMARKET", "TEST TRANSACTION", ""}

ConditionAmounts == {0, 150}

---------------------------------------------------------------------------
(* Pattern tests, tabulated: TLC evaluates a constant once.                *)

AllDescriptions ==
    Descriptions \cup ModuleDescriptions \cup ExtractorDescriptions \cup ConditionDescriptions

\* the descriptions, whole and with a prefix taken off
AllTexts ==
    LET squared == AllDescriptions \cup {remove_prefix(d, "SQ *") : d \in AllDescriptions}
    IN squared \cup {remove_prefix(d, "PAYPAL *") : d \in squared}

AllConfigs == {load_custom_config(f) : f \in ConfigFiles \cup create_default_config}

AllMerchantPatterns == UNION {{Pattern(c[1][i]) : i \in 1..Len(c[1])} : c \in AllConfigs}

AllKeywords ==
    UNION {UNION {{c[2][i].keywords[k] : k \in 1..Len(c[2][i].keywords)} : i \in 1..Len(c[2])}
           : c \in AllConfigs}

\* re.search(pattern, description, re.IGNORECASE) of normalize_merchant
MerchantTable ==
    [pattern \in AllMerchantPatterns, text \in AllTexts |-> re_search(pattern, text)]

\* re.search(rf'(?i){re.escape(keyword)}', description) of categorize_transaction
KeywordTable ==
    [keyword \in AllKeywords, text \in AllTexts |->
        re_search("(?i)" \o re_escape(keyword), text)]

\* re.search(pattern, description, re.IGNORECASE) of _categorize_transaction
SearchTable ==
    [keyword \in AllKeywords, text \in ExtractorDescriptions |-> re_search(keyword, text)]

\* the text test of apply_rules
\* every pattern taken for a regular expression
AlwaysRegex(is_regex, pattern, description) == re_search(pattern, description)

text_test(is_regex, pattern, description) ==
    IF is_regex THEN re_search(pattern, description)
    ELSE str_in(lower(pattern), lower(description))

\* a JSON scalar is a [type, num, str] record; no key of a rule's dict is "type"
IsDict(value) == "type" \notin DOMAIN value

RulePatterns ==
    {r.pattern : r \in RulePool \cup ExtractorRulePool \cup ConditionRulePool}
        \cup UNION {{_parse_rule(f.items[i]).pattern :
                        i \in {k \in 1..Len(f.items) : IsDict(f.items[k])}} : f \in RuleFiles}

TextTable ==
    [is_regex \in BOOLEAN, pattern \in RulePatterns,
     description \in Descriptions \cup ExtractorDescriptions \cup ConditionDescriptions |->
        text_test(is_regex, pattern, description)]

---------------------------------------------------------------------------
(* The predicates of a rule and apply_rules.                               *)

\* `if not condition`: None and the empty dict are both falsy
Falsy(condition) == condition = None \/ DOMAIN condition[1] = {}

_check_amount_condition_raises(amount, condition) ==
    /\ ~Falsy(condition)
    /\ float_raises(Get(condition[1], "value", JNum(0)))

\* an amount predicate that is never looked at
AmountIgnored(amount, condition) == TRUE

_check_amount_condition(amount, condition) ==
    IF Falsy(condition) THEN TRUE
    ELSE LET operator == Get(condition[1], "operator", "==")
             value == float(Get(condition[1], "value", JNum(0)))
         IN IF operator = "==" THEN amount = value
            ELSE IF operator = ">" THEN amount > value
            ELSE IF operator = ">=" THEN amount >= value
            ELSE IF operator = "<" THEN amount < value
            ELSE IF operator = "<=" THEN amount <= value
            ELSE IF operator = "!=" THEN amount # value
            ELSE FALSE

\* strptime raises TypeError, which the code does not catch, on a value that is no string
_check_date_condition_raises(date, condition) ==
    /\ ~Falsy(condition)
    /\ Get(condition[1], "value", JStr("")).type # "string"

\* a date predicate that knows != as well
DateNotEqualToo(date, condition) ==
    IF Falsy(condition) THEN TRUE
    ELSE LET operator == Get(condition[1], "operator", "==")
             target_date == strptime(Get(condition[1], "value", JStr("")).str)
         IN IF target_date = None THEN FALSE
            ELSE LET d == date_of(date)
                     t == date_of(target_date[1])
                 IN \/ operator = "==" /\ d = t
                    \/ operator = ">" /\ date_lt(t, d)
                    \/ operator = ">=" /\ ~date_lt(d, t)
                    \/ operator = "<" /\ date_lt(d, t)
                    \/ operator = "<=" /\ ~date_lt(t, d)
                    \/ operator = "!=" /\ d # t

_check_date_condition(date, condition) ==
    IF Falsy(condition) THEN TRUE
    ELSE LET operator == Get(condition[1], "operator", "==")
             value == Get(condition[1], "value", JStr("")).str
             target_date == strptime(value)
         IN IF target_date = None THEN FALSE
            ELSE LET d == date_of(date)
                     t == date_of(target_date[1])
                 IN IF operator = "==" THEN d = t
                    ELSE IF operator = ">" THEN date_lt(t, d)
                    ELSE IF operator = ">=" THEN ~date_lt(d, t)
                    ELSE IF operator = "<" THEN date_lt(d, t)
                    ELSE IF operator = "<=" THEN ~date_lt(t, d)
                    ELSE FALSE

pattern_matches(rule, description) == TextTable[rule.is_regex, rule.pattern, description]

\* the loop of apply_rules from position i on
RECURSIVE apply_from(_, _, _, _, _)
apply_from(rs, i, description, amount, date) ==
    IF i > Len(rs) THEN Return(None)
    ELSE LET rule == rs[i] IN
         IF ~pattern_matches(rule, description)
         THEN apply_from(rs, i + 1, description, amount, date)
         ELSE IF _check_amount_condition_raises(amount, rule.amount_condition)
         THEN Raise("ValueError")
         ELSE IF ~_check_amount_condition(amount, rule.amount_condition)
         THEN apply_from(rs, i + 1, description, amount, date)
         ELSE IF _check_date_condition_raises(date, rule.date_condition)
         THEN Raise("TypeError")
         ELSE IF ~_check_date_condition(date, rule.date_condition)
         THEN apply_from(rs, i + 1, description, amount, date)
         ELSE Return(Some(rule.category))

\* "Other" in place of the missing match
ApplyOrOther(rs, description, amount, date) ==
    LET found == apply_from(rs, 1, description, amount, date)
    IN IF found = Return(None) THEN Return(Some("Other")) ELSE found

apply_rules(rs, description, amount, date) == apply_from(rs, 1, description, amount, date)

---------------------------------------------------------------------------
(* transaction_categories.py: the two lookups, over the tables in effect.  *)

\* the loop of normalize_merchant from position i on
RECURSIVE normalize_from(_, _, _)
normalize_from(patterns, i, description) ==
    IF i > Len(patterns) THEN description
    ELSE IF MerchantTable[Pattern(patterns[i]), description]
    THEN Normalized(patterns[i])
    ELSE normalize_from(patterns, i + 1, description)

\* the name of the last pattern that matches, not of the first
NormalizeLastMatch(patterns, description) ==
    LET cleaned == strip_prefixes(description)
        hits == {i \in 1..Len(patterns) : MerchantTable[Pattern(patterns[i]), cleaned]}
    IN IF hits = {} THEN cleaned
       ELSE Normalized(patterns[CHOOSE i \in hits : \A j \in hits : j <= i])

normalize_merchant(patterns, description) ==
    normalize_from(patterns, 1, strip_prefixes(description))

\* any(re.search(...) for keyword in keywords)
any_keyword(keywords, description) ==
    \E k \in 1..Len(keywords) : KeywordTable[keywords[k], description]

\* the loop of categorize_transaction from item i of the map on
RECURSIVE categorize_from(_, _, _)
categorize_from(categories, i, description) ==
    IF i > Len(categories) THEN "Other"
    ELSE IF any_keyword(categories[i].keywords, description)
    THEN categories[i].name
    ELSE categorize_from(categories, i + 1, description)

\* the keywords looked for in the description as it came
CategorizeUnstripped(categories, description) ==
    categorize_from(categories, 1, description)

\* the last category of the map with a keyword in the description, not the first
CategorizeLastMatch(categories, description) ==
    LET found == {i \in 1..Len(categories) :
                      any_keyword(categories[i].keywords, strip_prefixes(description))}
    IN IF found = {} THEN "Other"
       ELSE categories[CHOOSE i \in found : \A k \in found : k <= i].name

\* normalize_merchant is called on the way and its result dropped
categorize_transaction(categories, description) ==
    categorize_from(categories, 1, strip_prefixes(description))

---------------------------------------------------------------------------
(* ccs_extract.py: the resolver and the cleaning step of the pipeline.     *)

\* the dict _load_config builds
Config(pair) == [merchant_patterns |-> pair[1], categories |-> pair[2]]

\* load_custom_config(config_file) as _load_config calls it: the function takes no
\* parameter, so a call with arguments raises TypeError before its body runs
call_load_custom_config(args, file) ==
    IF Len(args) # 0 THEN Raise("TypeError") ELSE Return(load_custom_config(file))

\* _load_config: of what the call raises, JSONDecodeError and ValidationError are
\* turned into StatementExtractorError, anything else passes through
_load_config(path, file) ==
    LET loaded == call_load_custom_config(<<path>>, file)
    IN IF loaded.exc \in {"JSONDecodeError", "ValidationError"}
       THEN Raise("StatementExtractorError")
       ELSE IF loaded.exc # "" THEN loaded
       ELSE Return(Some(Config(loaded.ret)))

\* the fallback loops of _categorize_transaction from item i of the map on
RECURSIVE fallback_from(_, _, _)
fallback_from(categories, i, description) ==
    IF i > Len(categories) THEN "Other"
    ELSE IF \E k \in 1..Len(categories[i].keywords) :
                SearchTable[categories[i].keywords[k], description]
    THEN categories[i].name
    ELSE fallback_from(categories, i + 1, description)

\* a resolver whose fallback is a name no map holds
ResolveOrUncategorized(rs, cfg, description, amount, date) ==
    LET category == apply_rules(rs, description, amount, date)
    IN IF category.exc # "" THEN category
       ELSE IF category.ret # None /\ category.ret[1] # ""
       THEN Return(category.ret[1])
       ELSE Return("Uncategorized")

\* `if category:` is false of None and of the empty string
_categorize_transaction(rs, cfg, description, amount, date) ==
    LET category == apply_rules(rs, description, amount, date)
    IN IF category.exc # "" THEN category
       ELSE IF category.ret # None /\ category.ret[1] # ""
       THEN Return(category.ret[1])
       ELSE Return(fallback_from(cfg.categories, 1, description))

\* ' '.join(details.split()): runs of blanks become one blank, none at the ends
RECURSIVE join_split(_)
join_split(s) ==
    IF s = "" THEN ""
    ELSE IF Char(s, 1) = " " THEN join_split(Slice(s, 2, Len(s)))
    ELSE LET rest == join_split(Slice(s, 2, Len(s)))
         IN Char(s, 1) \o (IF Char(s, 2) = " " /\ rest # "" THEN " " ELSE "") \o rest

\* a transaction as extract_transactions hands it to clean_transactions; the amount
\* and the date stand for what the texts of the transaction denote
ExtractorDetails == ExtractorDescriptions \cup {"COLES  SUPERMARKET ", "Transaction details", ""}

DetailsTable == [details \in ExtractorDetails |-> join_split(details)]

\* the body of the loop of clean_transactions for one transaction: None for a
\* transaction that is skipped, else the fields the step sets
clean_transaction(patterns, categories, details) ==
    IF details = "" \/ details = "Transaction details" THEN None
    ELSE LET cleaned == DetailsTable[details]
         IN Some([Details |-> cleaned,
                  Merchant |-> normalize_merchant(patterns, cleaned),
                  Category |-> categorize_transaction(categories, cleaned)])

---------------------------------------------------------------------------
(* ccs_extract.py: process_statement and its stages.                       *)

\* re.compile raises re.error on a pattern whose parentheses do not pair up (the
\* one kind of malformed pattern among the inputs)
RECURSIVE paren_depth(_, _, _)
paren_depth(p, i, depth) ==
    IF depth < 0 \/ i > Len(p) THEN depth
    ELSE IF Char(p, i) = "\\" THEN paren_depth(p, i + 2, depth)
    ELSE IF Char(p, i) = "(" THEN paren_depth(p, i + 1, depth + 1)
    ELSE IF Char(p, i) = ")" THEN paren_depth(p, i + 1, depth - 1)
    ELSE paren_depth(p, i + 1, depth)

re_error(pattern) == paren_depth(pattern, 1, 0) # 0

\* normalize_merchant raises when the loop comes to a pattern that does not compile
normalize_merchant_raises(patterns, description) ==
    \E i \in 1..Len(patterns) :
        /\ re_error(Pattern(patterns[i]))
        /\ \A j \in 1..(i - 1) :
               /\ ~re_error(Pattern(patterns[j]))
               /\ ~MerchantTable[Pattern(patterns[j]), strip_prefixes(description)]

\* config.TRANSACTION_PATTERNS; a compiled pattern is the one-field record of its text
TRANSACTION_PATTERNS ==
    << [name |-> "standard_with_year",
        pattern |-> [compiled |-> "(\\d{1,2} [A-Za-z]{3} \\d{4}) \\$([\\d,.]+)(.+)"],
        groups |-> [date |-> 1, amount |-> 2, description |-> 3]],
       [name |-> "standard_without_year",
        pattern |-> [compiled |-> "(\\d{1,2} [A-Za-z]{3}) \\$([\\d,.]+)(.+)"],
        groups |-> [date |-> 1, amount |-> 2, description |-> 3]] >>

\* parsing_patterns.json, in the manner of a rules file: no file, text that is not
\* JSON, an object, or a list whose items are dicts or scalars
ParsingPatternsFiles ==
    LET custom == [name |-> "custom_test_pattern", pattern |-> JStr("CUSTOM_REGEX_(\\d+)"),
                   groups |-> [date |-> 0, amount |-> 0, description |-> 0]]
        second == [name |-> "second", pattern |-> JStr("(\\d+) (.+)"),
                   groups |-> [date |-> 1, amount |-> 1, description |-> 2]]
    IN { RulesFile("missing", <<>>),
         RulesFile("invalid_json", <<>>),
         RulesFile("object", <<JStr("patterns")>>),
         RulesFile("list", <<>>),
         RulesFile("list", <<custom>>),
         RulesFile("list", <<custom, second>>),
         RulesFile("list", <<custom, [name |-> "no groups", pattern |-> JStr("x")]>>),
         RulesFile("list", <<[pattern |-> JStr("x"), groups |-> [date |-> 1]], custom>>),
         RulesFile("list", <<custom, [name |-> "no pattern", groups |-> [date |-> 1]]>>),
         RulesFile("list", <<custom, JStr("second")>>),
         RulesFile("list", <<custom, [second EXCEPT !.pattern = JStr("(\\d+")]>>),
         RulesFile("list", <<custom, [second EXCEPT !.pattern = JNum(5)]>>) }

\* _load_parsing_patterns: every exception of the try block ends in the defaults:
\* FileNotFoundError, JSONDecodeError, the ValueError of a value that is no list and
\* of an item that is no dict or lacks a key, and what re.compile raises (re.error
\* on a pattern that does not compile, TypeError on one that is no string)
_load_parsing_patterns(patterns_file) ==
    LET items == patterns_file.items
        well_formed(p_data) ==
            /\ IsDict(p_data)
            /\ {"name", "pattern", "groups"} \subseteq DOMAIN p_data
        compiles(p_data) ==
            p_data.pattern.type = "string" /\ ~re_error(p_data.pattern.str)
    IN IF patterns_file.kind # "list" THEN TRANSACTION_PATTERNS
       ELSE IF \E i \in 1..Len(items) :
                   \/ ~well_formed(items[i])
                   \/ /\ \A k \in 1..i : well_formed(items[k])
                      /\ ~compiles(items[i])
       THEN TRANSACTION_PATTERNS
       ELSE [i \in 1..Len(items) |->
                [items[i] EXCEPT !.pattern = [compiled |-> items[i].pattern.str]]]

\* a config the schema accepts, with a pattern that does not compile
BrokenConfigFile ==
    ConfigFile("valid",
               << Item("(coles", "Coles") >>,
               << [name |-> "Groceries", keywords |-> <<"COLES", "WOOLWORTHS">>] >>)

\* the configs an extractor processes statements under
StatementConfigFiles == {FixtureConfigFile, BrokenConfigFile}

\* str.endswith, os.path.dirname
endswith(s, suffix) == Slice(s, Len(s) - Len(suffix) + 1, Len(s)) = suffix /\ Len(s) >= Len(suffix)

last_index(s, c) ==
    LET at == {i \in 1..Len(s) : Char(s, i) = c}
    IN IF at = {} THEN 0 ELSE CHOOSE i \in at : \A k \in at : k <= i

dirname(path) == Slice(path, 1, last_index(path, "/") - 1)
\* A statement file: where it is, whether it exists, whether PdfReader reads it, and
\* the lines of its text. A line a transaction pattern matches is given by the
\* groups of the match; the line of the statement period by its starting year; any
\* other line matches nothing. The transaction lines are debit lines.
Pdf(path, exists, readable, lines) ==
    [path |-> path, exists |-> exists, readable |-> readable, lines |-> lines]

Line(kind, date, amount, description, year) ==
    [kind |-> kind, date |-> date, amount |-> amount, description |-> description,
     year |-> year]

\* among the lines: a date without its year, a description that is blank once
\* stripped, a date no calendar has
Pdfs ==
    { Pdf("missing.pdf", FALSE, FALSE, <<>>),
      Pdf("statement.txt", TRUE, TRUE,
          << Line("transaction", "1 Jan 2024", "50.00", "COLES SUPERMARKET", "") >>),
      Pdf("statement.pdf", TRUE, FALSE, <<>>),
      Pdf("statement.pdf", TRUE, TRUE, << Line("other", "", "", "", "") >>),
      Pdf("statement.pdf", TRUE, TRUE,
          << Line("other", "", "", "", ""),
             Line("transaction", "1 Jan 2024", "50.00", "COLES SUPERMARKET", "") >>),
      Pdf("statement.pdf", TRUE, TRUE,
          << Line("period", "", "", "", "2023"),
             Line("transaction", "2 Jan", "150.00", "TEST TRANSACTION", ""),
             Line("transaction", "30 Feb 2024", "50.00", "COLES SUPERMARKET", "") >>),
      Pdf("statement.pdf", TRUE, TRUE,
          << Line("transaction", "1 Jan 2024", "50.00", "COLES SUPERMARKET", ""),
             Line("transaction", "3 Jan 2024", "5.00", "", ""),
             Line("transaction", "2 Jan", "150.00", "TEST TRANSACTION", "") >>) }

\* datetime.now().year, as __init__ reads it
current_year == "2026"

\* datetime.strptime(text, '%d %b %Y') followed by strftime('%d/%m/%Y'); None is the
\* ValueError
reformat_date(text) ==
    LET MonthNames == <<"jan", "feb", "mar", "apr", "may", "jun",
                        "jul", "aug", "sep", "oct", "nov", "dec">>
        sp1 == IndexOf(text, " ", 1)
        day == Slice(text, 1, sp1 - 1)
        rest == Slice(text, sp1 + 1, Len(text))
        sp2 == IndexOf(rest, " ", 1)
        month == lower(Slice(rest, 1, sp2 - 1))
        year == Slice(rest, sp2 + 1, Len(rest))
        months == {m \in 1..12 : MonthNames[m] = month}
    IN IF sp1 = 0 \/ sp2 = 0 \/ months = {} THEN None
       ELSE IF day = "" \/ ~AllDigits(day) \/ Len(day) > 2 THEN None
       ELSE IF ~AllDigits(year) \/ Len(year) # 4 \/ ToInt(year) < 1 THEN None
       ELSE LET m == CHOOSE x \in months : TRUE
            IN IF ToInt(day) < 1 \/ ToInt(day) > DaysInMonth(ToInt(year), m) THEN None
               ELSE Some((IF Len(day) = 1 THEN "0" ELSE "") \o day \o "/"
                         \o Slice(Digits, (m \div 10) + 1, (m \div 10) + 1)
                         \o Slice(Digits, (m % 10) + 1, (m % 10) + 1)
                         \o "/" \o year)

\* the default year of clean_transactions: the start of the statement period when
\* the text has the line, the current year otherwise
default_year(text) ==
    LET at == {i \in 1..Len(text) : text[i].kind = "period"}
    IN IF at = {} THEN current_year
       ELSE text[CHOOSE i \in at : \A k \in at : i <= k].year

\* the date as clean_transactions leaves it: with its own year, else with the
\* default year, else untouched
standardize_date(date, year) ==
    IF reformat_date(date) # None THEN reformat_date(date)[1]
    ELSE IF reformat_date(date \o " " \o year) # None
    THEN reformat_date(date \o " " \o year)[1]
    ELSE date

\* the output_path argument: none, a bare file name, a path that is a directory
OutputPaths == {None, Some("out.csv"), Some("reports/2024")}

Directories == {"reports", "reports/2024", "output"}

\* CSV_SETTINGS['fieldnames']
CSV_FIELDNAMES == <<"Transaction Date", "Transaction Details", "Amount">>

\* validation that lets every path through
ValidateNothing(pdf) == Return(None)

\* validate_pdf
validate_pdf(pdf) ==
    IF ~pdf.exists THEN Raise("PDFError")
    ELSE IF ~endswith(lower(pdf.path), ".pdf") THEN Raise("PDFError")
    ELSE Return(None)

\* extract_text_from_pdf: whatever open or PdfReader raises becomes PDFError
extract_text_from_pdf(pdf) ==
    IF ~pdf.exists \/ ~pdf.readable THEN Raise("PDFError") ELSE Return(pdf.lines)

\* the dicts extract_transactions appends, one per matched line
RECURSIVE raw_transactions(_)
raw_transactions(text) ==
    IF text = <<>> THEN <<>>
    ELSE (IF Head(text).kind # "transaction" THEN <<>>
          ELSE << [k \in {"Transaction Date", "Transaction Details", "Amount"} |->
                     IF k = "Transaction Date" THEN Head(text).date
                     ELSE IF k = "Transaction Details" THEN Head(text).description
                     ELSE Head(text).amount] >>)
         \o raw_transactions(Tail(text))

\* clean_transactions over the list: a skipped transaction is left out, the others
\* get their cleaned details, Merchant, Category and standardized date
RECURSIVE clean_transactions(_, _, _, _)
clean_transactions(patterns, categories, year, transactions) ==
    IF transactions = <<>> THEN <<>>
    ELSE LET trans == Head(transactions)
             cleaned == clean_transaction(patterns, categories, trans["Transaction Details"])
         IN (IF cleaned = None THEN <<>>
             ELSE << [k \in DOMAIN trans \cup {"Merchant", "Category"} |->
                        IF k = "Transaction Details" THEN cleaned[1].Details
                        ELSE IF k = "Merchant" THEN cleaned[1].Merchant
                        ELSE IF k = "Category" THEN cleaned[1].Category
                        ELSE IF k = "Transaction Date"
                        THEN standardize_date(trans["Transaction Date"], year)
                        ELSE trans[k]] >>)
            \o clean_transactions(patterns, categories, year, Tail(transactions))

\* extract_transactions: whatever the cleaning raises becomes TransactionExtractionError
extract_transactions(patterns, categories, text) ==
    LET transactions == raw_transactions(text)
    IN IF \E i \in 1..Len(transactions) :
              /\ transactions[i]["Transaction Details"] \notin {"", "Transaction details"}
              /\ normalize_merchant_raises(patterns,
                                           DetailsTable[transactions[i]["Transaction Details"]])
       THEN Raise("TransactionExtractionError")
       ELSE Return(clean_transactions(patterns, categories, default_year(text), transactions))

\* extract_transactions over the configs and the statement texts of the model
ExtractionTable ==
    [patterns \in {load_custom_config(file)[1] : file \in StatementConfigFiles},
     categories \in {load_custom_config(file)[2] : file \in StatementConfigFiles},
     text \in {pdf.lines : pdf \in Pdfs} |->
        extract_transactions(patterns, categories, text)]

\* the rows DictWriter writes before the first transaction it refuses: writerow
\* raises ValueError on a dict with a key that is no fieldname
RECURSIVE written_rows(_, _)
written_rows(fieldnames, transactions) ==
    IF transactions = <<>> THEN <<>>
    ELSE IF \E k \in DOMAIN Head(transactions) :
                \A i \in 1..Len(fieldnames) : fieldnames[i] # k
    THEN <<>>
    ELSE << [i \in 1..Len(fieldnames) |-> Head(transactions)[fieldnames[i]]] >>
         \o written_rows(fieldnames, Tail(transactions))

\* write_to_csv: what it raises and the file it leaves. open raises on a directory
\* and when the disk refuses; every exception becomes OutputError.
write_to_csv(transactions, output_path, file, disk_ok) ==
    IF output_path \in Directories \/ ~disk_ok
    THEN [exc |-> "OutputError", file |-> file]
    ELSE LET rows == written_rows(CSV_FIELDNAMES, transactions)
         IN [exc |-> IF Len(rows) < Len(transactions) THEN "OutputError" ELSE "",
             file |-> Some([header |-> CSV_FIELDNAMES, rows |-> rows])]

\* the output path process_statement settles on: the given one, else the name of
\* the PDF without its extension, as a .csv under output/ in the directory the
\* extractor was made in
resolve_output_path(pdf_path, output_path) ==
    LET base_dir == "/work"
        input_filename == Slice(pdf_path, last_index(pdf_path, "/") + 1, Len(pdf_path))
        root == IF last_index(input_filename, ".") > 1
                THEN Slice(input_filename, 1, last_index(input_filename, ".") - 1)
                ELSE input_filename
    IN IF output_path = None THEN base_dir \o "/output/" \o root \o ".csv"
       ELSE output_path[1]

\* os.makedirs(name, exist_ok=True): FileNotFoundError on the empty name
makedirs(name) == IF name = "" THEN Raise("FileNotFoundError") ELSE Return(None)

\* What one call of process_statement does: the stages it enters, in order, the
\* exception that leaves it, and the text and files after it. csv_ok and debug_ok
\* say whether the disk takes the two writes. csv is the CSV of statement.pdf at
\* its default place.
process_statement(patterns, categories, text, csv, debug, pdf, output_path, debug_mode, csv_ok, debug_ok) ==
    LET same == [statement_text |-> text, csv_file |-> csv, debug_file |-> debug]
        Left(entered, exc, files) ==
            [stages |-> entered, exc |-> exc, statement_text |-> files.statement_text,
             csv_file |-> files.csv_file, debug_file |-> files.debug_file]
        s1 == <<"validate_pdf">>
        s2 == Append(s1, "extract_text_from_pdf")
        s3 == Append(s2, "extract_transactions")
        s4 == Append(s3, "makedirs")
        s5 == Append(s4, "write_to_csv")
        s6 == Append(s5, "debug_file")
    IN IF validate_pdf(pdf).exc # "" THEN Left(s1, validate_pdf(pdf).exc, same)
       ELSE IF extract_text_from_pdf(pdf).exc # ""
       THEN Left(s2, extract_text_from_pdf(pdf).exc, same)
       ELSE LET read == [same EXCEPT !.statement_text = extract_text_from_pdf(pdf).ret]
                transactions == ExtractionTable[patterns, categories, read.statement_text]
                path == resolve_output_path(pdf.path, output_path)
            IN IF transactions.exc # "" THEN Left(s3, transactions.exc, read)
               ELSE IF makedirs(dirname(path)).exc # ""
               THEN Left(s4, makedirs(dirname(path)).exc, read)
               ELSE LET wrote == write_to_csv(transactions.ret, path, csv, csv_ok)
                        written == [read EXCEPT !.csv_file =
                                        IF path = resolve_output_path("statement.pdf", None)
                                        THEN wrote.file ELSE csv]
                    IN IF wrote.exc # "" THEN Left(s5, wrote.exc, written)
                       ELSE IF ~debug_mode THEN Left(s5, "", written)
                       ELSE IF ~debug_ok THEN Left(s6, "OSError", written)
                       ELSE Left(s6, "", [written EXCEPT !.debug_file =
                                                             Some(read.statement_text)])

---------------------------------------------------------------------------
(* The state machines.                                                     *)

NoDate == DateTime(1, 1, 1, 0, 0)

Call(op, description, amount, date, outcome) ==
    [op |-> op, description |-> description, amount |-> amount, date |-> date,
     exc |-> outcome.exc, ret |-> outcome.ret]

\* a call that is given a file
CallOn(op, file, outcome) ==
    [op |-> op, file |-> file, exc |-> outcome.exc, ret |-> outcome.ret]

NoConfig == Config(<< <<>>, <<>> >>)

\* before any statement is processed: no text, no output files
NoStatement ==
    /\ statement_text = <<>>
    /\ csv_file = None
    /\ debug_file = None
    /\ stages = <<>>

\* before `import transaction_categories`
NotImported ==
    /\ imported = FALSE
    /\ MERCHANT_PATTERNS = <<>>
    /\ CATEGORIES = <<>>

\* TransactionRulesEngine(): no rules file given
Init ==
    /\ rules = <<>>
    /\ history = <<>>
    /\ config_file = AbsentFile
    /\ NotImported
    /\ config = NoConfig
    /\ transaction_patterns = <<>>
    /\ NoStatement
    /\ last = Call("__init__", "", 0, NoDate, Return(None))

add_rule(rule) ==
    /\ Len(rules) < MaxRules
    /\ rules' = sort_by_priority(Append(rules, rule))
    /\ history' = Append(history, rule)
    /\ last' = Call("add_rule", "", 0, NoDate, Return(None))
    /\ UNCHANGED <<module_vars, config, transaction_patterns, statement_vars>>

\* [self._parse_rule(rule) for rule in rules_data]
RECURSIVE parse_all(_)
parse_all(items) ==
    IF items = <<>> THEN <<>> ELSE <<_parse_rule(Head(items))>> \o parse_all(Tail(items))

\* the try block of load_rules: the exception it ends in, or the list it leaves in
\* self.rules. open raises on a missing file, json.load on text that is not JSON,
\* the iteration on a number or null, and _parse_rule on an item without .get.
\* self.rules is assigned before it is sorted: when the sort raises on a text and
\* a numeric priority the parsed list stays in self.rules, and with at most three
\* rules list.sort has moved nothing by then, so it stays in the order of the file.
try_load(rules_file) ==
    IF rules_file.kind = "missing" THEN Raise("FileNotFoundError")
    ELSE IF rules_file.kind = "invalid_json" THEN Raise("JSONDecodeError")
    ELSE IF rules_file.kind \in {"number", "null"} THEN Raise("TypeError")
    ELSE IF \E i \in 1..Len(rules_file.items) : ~IsDict(rules_file.items[i])
    THEN Raise("AttributeError")
    ELSE LET parsed == parse_all(rules_file.items)
             text == {i \in 1..Len(parsed) : parsed[i].priority = TextPriority}
         IN IF text # {} /\ text # 1..Len(parsed)
            THEN [exc |-> "TypeError", ret |-> Some(parsed)]
            ELSE Return(sort_by_priority(parsed))

\* whatever the try block raises is re-raised as ValueError
load_rules(rules_file) ==
    /\ IF try_load(rules_file).exc # ""
       THEN /\ last' = CallOn("load_rules", rules_file, Raise("ValueError"))
            /\ IF try_load(rules_file).ret = None
               THEN UNCHANGED <<rules, history>>
               ELSE /\ rules' = try_load(rules_file).ret[1]
                    /\ history' = try_load(rules_file).ret[1]
       ELSE /\ rules' = try_load(rules_file).ret
            /\ history' = parse_all(rules_file.items)
            /\ last' = CallOn("load_rules", rules_file, Return(None))
    /\ UNCHANGED <<module_vars, config, transaction_patterns, statement_vars>>

\* TransactionRulesEngine(rules_file): a new engine in place of the old one. With no
\* path the rule list is empty; with a path load_rules runs, and when it raises the
\* constructor raises and the caller is left with the engine it had.
TransactionRulesEngine(rules_file) ==
    /\ IF rules_file = None
       THEN /\ rules' = <<>>
            /\ history' = <<>>
            /\ last' = CallOn("TransactionRulesEngine", rules_file, Return(None))
       ELSE IF try_load(rules_file[1]).exc # ""
       THEN /\ last' = CallOn("TransactionRulesEngine", rules_file, Raise("ValueError"))
            /\ UNCHANGED <<rules, history>>
       ELSE /\ rules' = try_load(rules_file[1]).ret
            /\ history' = parse_all(rules_file[1].items)
            /\ last' = CallOn("TransactionRulesEngine", rules_file, Return(None))
    /\ UNCHANGED <<module_vars, config, transaction_patterns, statement_vars>>

\* an apply_rules that uses up the rule at the head of the list
ApplyRulesConsuming(description, amount, date) ==
    /\ last' = Call("apply_rules", description, amount, date,
                    apply_rules(rules, description, amount, date))
    /\ rules' = IF rules = <<>> THEN rules ELSE Tail(rules)
    /\ UNCHANGED <<history, module_vars, config, transaction_patterns, statement_vars>>

ApplyRules(description, amount, date) ==
    /\ last' = Call("apply_rules", description, amount, date,
                    apply_rules(rules, description, amount, date))
    /\ UNCHANGED <<engine_vars, module_vars, config, transaction_patterns, statement_vars>>

Next ==
    \/ \E rule \in RulePool : add_rule(rule)
    \/ \E rules_file \in RuleFiles : load_rules(rules_file)
    \/ \E rules_file \in {None} \cup {Some(f) : f \in RuleFiles} :
           TransactionRulesEngine(rules_file)
    \/ \E description \in Descriptions, amount \in Amounts, date \in Dates :
           ApplyRules(description, amount, date)

Spec == Init /\ [][Next]_vars

\* the engine with rules whose conditions nobody has validated
NextConditions ==
    \/ \E rule \in ConditionRulePool : add_rule(rule)
    \/ \E description \in ConditionDescriptions, amount \in ConditionAmounts :
           ApplyRules(description, amount, ExtractorDate)

SpecConditions == Init /\ [][NextConditions]_vars

\* an engine loaded from a file of one rule, applied to transactions about its value
NextOperators ==
    \/ \E rules_file \in OperatorFiles : load_rules(rules_file)
    \/ \E amount \in Amounts, date \in Dates : ApplyRules("COLES SUPERMARKET", amount, date)

SpecOperators == Init /\ [][NextOperators]_vars

\* an engine loaded from one file after another, good and bad
NextLoads ==
    \/ \E rules_file \in RuleFiles \cup MixedPriorityFiles : load_rules(rules_file)
    \/ \E description \in Descriptions, amount \in Amounts, date \in Dates :
           ApplyRules(description, amount, date)

SpecLoads == Init /\ [][NextLoads]_vars

\* transaction_categories.py, with whatever transaction_config.json lies beside it
InitCategories ==
    /\ config_file \in ConfigFiles
    /\ NotImported
    /\ rules = <<>>
    /\ history = <<>>
    /\ config = NoConfig
    /\ transaction_patterns = <<>>
    /\ NoStatement
    /\ last = Call("", "", 0, NoDate, Return(None))

\* MERCHANT_PATTERNS, CATEGORIES = load_custom_config(), run by the import
Import ==
    /\ ~imported
    /\ imported' = TRUE
    /\ MERCHANT_PATTERNS' = load_custom_config(config_file)[1]
    /\ CATEGORIES' = load_custom_config(config_file)[2]
    /\ config_file' \in load_custom_config_files(config_file)
    /\ last' = Call("import", "", 0, NoDate, Return(None))
    /\ UNCHANGED <<engine_vars, config, transaction_patterns, statement_vars>>

\* a later call of load_custom_config(): the module's tables stay as the import set them
LoadCustomConfig ==
    /\ imported
    /\ config_file' \in load_custom_config_files(config_file)
    /\ last' = Call("load_custom_config", "", 0, NoDate,
                    Return(load_custom_config(config_file)))
    /\ UNCHANGED <<engine_vars, imported, MERCHANT_PATTERNS, CATEGORIES, config, transaction_patterns, statement_vars>>

NormalizeMerchant(description) ==
    /\ imported
    /\ last' = Call("normalize_merchant", description, 0, NoDate,
                    Return(normalize_merchant(MERCHANT_PATTERNS, description)))
    /\ UNCHANGED <<engine_vars, module_vars, config, transaction_patterns, statement_vars>>

CategorizeTransaction(description) ==
    /\ imported
    /\ last' = Call("categorize_transaction", description, 0, NoDate,
                    Return(categorize_transaction(CATEGORIES, description)))
    /\ UNCHANGED <<engine_vars, module_vars, config, transaction_patterns, statement_vars>>

\* the config_file argument an extractor is constructed with
ConfigPaths == {"transaction_config.json", "missing_config.json"}

\* CreditCardStatementExtractor(config_file). _load_config imports
\* transaction_categories, which loads the tables if no one imported it before;
\* then come the rules engine over transaction_rules.json and the parsing patterns
\* of parsing_patterns.json. What a step raises leaves the constructor, and the
\* caller has no extractor: the fields stay those of the extractor it had.
CreditCardStatementExtractor(path, rules_file, patterns_file) ==
    /\ imported' = TRUE
    /\ IF imported
       THEN UNCHANGED <<config_file, MERCHANT_PATTERNS, CATEGORIES>>
       ELSE /\ MERCHANT_PATTERNS' = load_custom_config(config_file)[1]
            /\ CATEGORIES' = load_custom_config(config_file)[2]
            /\ config_file' \in load_custom_config_files(config_file)
    /\ LET loaded == _load_config(path, config_file')
           called == [config |-> path, patterns |-> patterns_file]
       IN IF loaded.exc # ""
          THEN /\ last' = CallOn("CreditCardStatementExtractor", called, Raise(loaded.exc))
               /\ UNCHANGED <<engine_vars, config, transaction_patterns>>
          ELSE IF try_load(rules_file).exc # ""
          THEN /\ last' = CallOn("CreditCardStatementExtractor", called, Raise("ValueError"))
               /\ UNCHANGED <<engine_vars, config, transaction_patterns>>
          ELSE /\ config' = loaded.ret[1]
               /\ rules' = try_load(rules_file).ret
               /\ history' = parse_all(rules_file.items)
               /\ transaction_patterns' = _load_parsing_patterns(patterns_file)
               /\ last' = CallOn("CreditCardStatementExtractor", called, Return(None))
    /\ UNCHANGED statement_vars

NextCategories ==
    \/ Import
    \/ LoadCustomConfig
    \/ \E path \in ConfigPaths, rules_file \in RuleFiles, patterns_file \in ParsingPatternsFiles :
           CreditCardStatementExtractor(path, rules_file, patterns_file)
    \/ \E description \in ModuleDescriptions : NormalizeMerchant(description)
    \/ \E description \in ModuleDescriptions : CategorizeTransaction(description)

SpecCategories == InitCategories /\ [][NextCategories]_vars

\* the config files an extractor is built over
ExtractorConfigFiles == {FixtureConfigFile, OwnConfigFile}

\* an extractor: the module imported, config and rules_engine as the resolver and
\* the cleaning step read them, the rules file an empty list
InitExtractor ==
    /\ config_file \in ExtractorConfigFiles
    /\ imported = TRUE
    /\ MERCHANT_PATTERNS = load_custom_config(config_file)[1]
    /\ CATEGORIES = load_custom_config(config_file)[2]
    /\ config = Config(load_custom_config(config_file))
    /\ transaction_patterns = TRANSACTION_PATTERNS
    /\ rules = <<>>
    /\ history = <<>>
    /\ NoStatement
    /\ last = Call("__init__", "", 0, NoDate, Return(None))

CategorizeTransactionByRules(description, amount, date) ==
    /\ last' = Call("_categorize_transaction", description, amount, date,
                    _categorize_transaction(rules, config, description, amount, date))
    /\ UNCHANGED <<engine_vars, module_vars, config, transaction_patterns, statement_vars>>

\* clean_transactions, one transaction at a time
CleanTransactions(details, amount, date) ==
    /\ last' = Call("clean_transactions", details, amount, date,
                    Return(clean_transaction(MERCHANT_PATTERNS, CATEGORIES, details)))
    /\ UNCHANGED <<engine_vars, module_vars, config, transaction_patterns, statement_vars>>

NextExtractor ==
    \/ \E rule \in ExtractorRulePool : add_rule(rule)
    \/ \E description \in ExtractorDescriptions, amount \in ExtractorAmounts :
           CategorizeTransactionByRules(description, amount, ExtractorDate)
    \/ \E details \in ExtractorDetails, amount \in ExtractorAmounts :
           CleanTransactions(details, amount, ExtractorDate)

SpecExtractor == InitExtractor /\ [][NextExtractor]_vars

\* an extractor whose rules grow while transactions are resolved, by each of the
\* four operations that resolve
NextResolution ==
    \/ \E rule \in ExtractorRulePool : add_rule(rule)
    \/ \E description \in ExtractorDescriptions, amount \in ExtractorAmounts :
           ApplyRules(description, amount, ExtractorDate)
    \/ \E description \in ExtractorDescriptions, amount \in ExtractorAmounts :
           CategorizeTransactionByRules(description, amount, ExtractorDate)
    \/ \E description \in ExtractorDescriptions : NormalizeMerchant(description)
    \/ \E description \in ExtractorDescriptions : CategorizeTransaction(description)

SpecResolution == InitExtractor /\ [][NextResolution]_vars

---------------------------------------------------------------------------
(* An extractor processing statements.                                     *)

StatementCall(pdf, output_path, debug_mode, csv_ok, debug_ok, exc) ==
    [op |-> "process_statement", pdf |-> pdf, output_path |-> output_path,
     debug_mode |-> debug_mode, csv_ok |-> csv_ok, debug_ok |-> debug_ok, exc |-> exc]

InitStatement ==
    /\ config_file \in StatementConfigFiles
    /\ imported = TRUE
    /\ MERCHANT_PATTERNS = load_custom_config(config_file)[1]
    /\ CATEGORIES = load_custom_config(config_file)[2]
    /\ config = Config(load_custom_config(config_file))
    /\ transaction_patterns = TRANSACTION_PATTERNS
    /\ rules = <<>>
    /\ history = <<>>
    /\ NoStatement
    /\ last = CallOn("__init__", config_file, Return(None))

ProcessStatement(pdf, output_path, debug_mode, csv_ok, debug_ok) ==
    \E done \in {process_statement(MERCHANT_PATTERNS, CATEGORIES,
                                   statement_text, csv_file, debug_file,
                                   pdf, output_path, debug_mode, csv_ok, debug_ok)} :
        /\ stages' = done.stages
        /\ statement_text' = done.statement_text
        /\ csv_file' = done.csv_file
        /\ debug_file' = done.debug_file
        /\ last' = StatementCall(pdf, output_path, debug_mode, csv_ok, debug_ok, done.exc)
        /\ UNCHANGED <<engine_vars, module_vars, config, transaction_patterns>>

NextStatement ==
    \E pdf \in Pdfs, output_path \in OutputPaths, debug_mode \in BOOLEAN,
       csv_ok \in BOOLEAN, debug_ok \in BOOLEAN :
        ProcessStatement(pdf, output_path, debug_mode, csv_ok, debug_ok)

SpecStatement == InitStatement /\ [][NextStatement]_vars

---------------------------------------------------------------------------
(* What the claims say, stated without the engine's own operators.         *)

Range(s) == {s[i] : i \in 1..Len(s)}

DateKey(dt) == dt.year * 10000 + dt.month * 100 + dt.day

Compare(operator, a, b) ==
    \/ operator = "==" /\ a = b
    \/ operator = ">" /\ a > b
    \/ operator = ">=" /\ a >= b
    \/ operator = "<" /\ a < b
    \/ operator = "<=" /\ a <= b
    \/ operator = "!=" /\ a # b

AmountHolds(rule, amount) ==
    \/ rule.amount_condition = None
    \/ /\ rule.amount_condition # None
       /\ LET c == rule.amount_condition[1] IN Compare(c.operator, amount, c.value.num)

DateHolds(rule, date) ==
    \/ rule.date_condition = None
    \/ /\ rule.date_condition # None
       /\ LET c == rule.date_condition[1]
              target == strptime(c.value.str)
          IN /\ target # None
             /\ c.operator # "!="
             /\ Compare(c.operator, DateKey(date), DateKey(target[1]))

TextHolds(rule, description) == TextTable[rule.is_regex, rule.pattern, description]

\* the rule fully matches the transaction
Holds(rule, description, amount, date) ==
    TextHolds(rule, description) /\ AmountHolds(rule, amount) /\ DateHolds(rule, date)

LastHolds(rule) == Holds(rule, last.description, last.amount, last.date)

Applied == last.op = "apply_rules"

\* C1: when two rules with the same pattern and different priorities both fully match
\* the transaction, apply_rules returns the category of a fully matching rule whose
\* priority is at least the higher of the two, and the category of the higher one
\* itself when no other fully matching rule has that priority or more; the order in
\* which the rules were added plays no part.
C1_PriorityWins ==
    Applied =>
        \A i, j \in 1..Len(rules) :
            ( /\ rules[i].pattern = rules[j].pattern
              /\ rules[i].priority > rules[j].priority
              /\ LastHolds(rules[i]) /\ LastHolds(rules[j]) )
            => /\ last.exc = ""
               /\ \E k \in 1..Len(rules) :
                      /\ LastHolds(rules[k])
                      /\ rules[k].priority >= rules[i].priority
                      /\ last.ret = Some(rules[k].category)
               /\ (\A k \in 1..Len(rules) :
                       (LastHolds(rules[k]) /\ rules[k].priority >= rules[i].priority)
                       => rules[k] = rules[i])
                  => last.ret = Some(rules[i].category)

\* C1 witness: the lower-priority rule arrived first, both match, the higher one won
C1_Witness ==
    /\ Applied
    /\ \E i, j \in 1..Len(history) :
           /\ i < j
           /\ history[i].pattern = history[j].pattern
           /\ history[i].priority < history[j].priority
           /\ history[i].category # history[j].category
           /\ LastHolds(history[i]) /\ LastHolds(history[j])
           /\ last.ret = Some(history[j].category)

WithPriority(s, p) == LET Test(r) == r.priority = p IN SelectSeq(s, Test)

\* C2: the rule list is in non-increasing priority order, and the rules of any one
\* priority stand in the order in which they arrived (added, or listed in the file).
C2_SortedStable ==
    /\ \A i, j \in 1..Len(rules) : i < j => rules[i].priority >= rules[j].priority
    /\ \A p \in {history[i].priority : i \in 1..Len(history)} :
           WithPriority(rules, p) = WithPriority(history, p)
    /\ Len(rules) = Len(history)

\* C2 witness: three rules, two of them distinct with one priority, and the sort has
\* moved a later arrival in front of an earlier one
C2_Witness ==
    /\ Len(rules) = 3
    /\ rules # history
    /\ \E i, j \in 1..3 : i < j /\ rules[i].priority = rules[j].priority /\ rules[i] # rules[j]

FirstHolding(rs, description, amount, date) ==
    LET holding == {i \in 1..Len(rs) : Holds(rs[i], description, amount, date)}
    IN IF holding = {} THEN None
       ELSE Some(rs[CHOOSE i \in holding : \A k \in holding : i <= k].category)

\* C3: a rule matches only when its text predicate and each amount/date predicate it
\* has all hold (one it lacks counts as holding), and apply_rules passes over a rule
\* that does not match: the result is the category of the first rule in the list all
\* of whose predicates hold, None when there is none. With the rules of the test
\* fixture, COLES SUPERMARKET gives "Groceries" at 50 and "Special Groceries" at 150.
C3_Conjunction ==
    Applied =>
        /\ last.exc = ""
        /\ last.ret = FirstHolding(rules, last.description, last.amount, last.date)
        /\ (last.amount < 100 /\ HighValueGroceries \in Range(rules))
               => last.ret # Some("Special Groceries")
        /\ (history = <<TestGroceries, HighValueGroceries, DateSpecific>>
               /\ last.description = "COLES SUPERMARKET")
               => last.ret = IF last.amount >= 100 THEN Some("Special Groceries")
                             ELSE Some("Groceries")

\* C3 witness: the fixture, COLES SUPERMARKET at 50: the amount rule is passed over
C3_Witness ==
    /\ Applied
    /\ history = <<TestGroceries, HighValueGroceries, DateSpecific>>
    /\ last.description = "COLES SUPERMARKET"
    /\ last.amount = 50
    /\ last.ret = Some("Groceries")

---------------------------------------------------------------------------
(* The resolver and the pipeline.                                          *)

Least(S) == CHOOSE i \in S : \A k \in S : i <= k

\* the first category of the map with a keyword that re.search finds in the text
KeywordCategory(categories, description) ==
    LET holders == {i \in 1..Len(categories) :
                        \E k \in 1..Len(categories[i].keywords) :
                            SearchTable[categories[i].keywords[k], description]}
    IN IF holders = {} THEN "Other" ELSE categories[Least(holders)].name

Resolved == last.op = "_categorize_transaction"

LastMatch == FirstHolding(rules, last.description, last.amount, last.date)

\* C4: whenever a rule fully matches the transaction, the resolver returns the
\* category of the rule apply_rules finds and leaves the keyword categories alone;
\* when no rule matches it returns the keyword category, "Other" when no keyword
\* matches either. With the two grocery rules, COLES SUPERMARKET at 150 resolves to
\* "Special Groceries".
C4_RulesTakePrecedence ==
    Resolved =>
        /\ last.exc = ""
        /\ LastMatch # None => last.ret = LastMatch[1]
        /\ LastMatch = None => last.ret = KeywordCategory(config.categories, last.description)
        /\ (Range(rules) = {TestGroceries, HighValueGroceries}
               /\ last.description = "COLES SUPERMARKET" /\ last.amount = 150)
               => last.ret = "Special Groceries"

\* C4 witness: a rule with an empty category matches, and the resolver answers with
\* a keyword category
C4_Witness ==
    /\ Resolved
    /\ LastMatch = Some("")
    /\ last.ret = "Groceries"

Cleaned == last.op = "clean_transactions" /\ last.ret # None

\* C5: the Category the cleaning step of the pipeline attaches to a transaction is
\* what the resolver gives for its description, amount and date, so a rule that
\* fully matches the transaction decides the Category.
C5_PipelineUsesResolver ==
    Cleaned =>
        /\ last.ret[1].Category =
               _categorize_transaction(rules, config, last.ret[1].Details,
                                       last.amount, last.date).ret
        /\ LET match == FirstHolding(rules, last.ret[1].Details, last.amount, last.date)
           IN match # None => last.ret[1].Category = match[1]

\* C5 witness: the rule of the fixture matches TEST TRANSACTION, and the pipeline
\* emits "Other"
C5_Witness ==
    /\ Cleaned
    /\ TestRule \in Range(rules)
    /\ last.ret[1].Details = "TEST TRANSACTION"
    /\ FirstHolding(rules, "TEST TRANSACTION", last.amount, last.date) = Some("Test Category")
    /\ last.ret[1].Category = "Other"

---------------------------------------------------------------------------
(* The keyword categorizer and the merchant normalizer.                    *)

\* the description without its leading gateway prefix: "SQ *" first, then "PAYPAL *"
Unprefixed(description) ==
    LET drop(s, prefix) ==
            IF Len(s) >= Len(prefix) /\ SubSeq(s, 1, Len(prefix)) = prefix
            THEN Slice(s, Len(prefix) + 1, Len(s))
            ELSE s
    IN drop(drop(description, "SQ *"), "PAYPAL *")

\* the keyword occurs in the text, letter case aside
OccursTable ==
    [keyword \in AllKeywords, text \in AllTexts |-> str_in(lower(keyword), lower(text))]

\* the categories of the map with a keyword that occurs in the text
Holders(categories, text) ==
    {i \in 1..Len(categories) :
        \E k \in 1..Len(categories[i].keywords) : OccursTable[categories[i].keywords[k], text]}

Categorized == last.op = "categorize_transaction"

Hits(patterns, text) ==
    {i \in 1..Len(patterns) : MerchantTable[Pattern(patterns[i]), text]}

NormalizeCalled == last.op = "normalize_merchant"

\* C7: normalize_merchant returns the canonical name of the first pattern of the
\* merchant list that is found in the description without its prefix, whatever
\* later patterns are found as well; with the built-in list COLES SUPERMARKET gives
\* "Coles", not "Generic Supermarket".
C7_FirstPatternWins ==
    NormalizeCalled =>
        LET hits == Hits(MERCHANT_PATTERNS, Unprefixed(last.description))
        IN /\ hits # {} => last.ret = Normalized(MERCHANT_PATTERNS[Least(hits)])
           /\ (MERCHANT_PATTERNS = DEFAULT_MERCHANT_PATTERNS
                   /\ last.description = "COLES SUPERMARKET")
                   => last.ret = "Coles"

\* C7 witness: the built-in list, COLES SUPERMARKET: the franchise pattern and the
\* generic one are both found, and the franchise is named
C7_Witness ==
    /\ NormalizeCalled
    /\ MERCHANT_PATTERNS = DEFAULT_MERCHANT_PATTERNS
    /\ last.description = "COLES SUPERMARKET"
    /\ Cardinality(Hits(MERCHANT_PATTERNS, "COLES SUPERMARKET")) >= 2
    /\ last.ret = "Coles"

\* C8: when no merchant pattern is found, normalize_merchant returns the
\* description without its leading gateway prefix and otherwise as it came: the
\* empty string only when nothing is left after the prefix.
C8_IdentityFallback ==
    NormalizeCalled =>
        LET cleaned == Unprefixed(last.description)
        IN Hits(MERCHANT_PATTERNS, cleaned) = {}
               => /\ last.ret = cleaned
                  /\ last.ret = "" <=> last.description \in {"", "SQ *", "PAYPAL *", "SQ *PAYPAL *"}

\* C8 witness: a prefixed description that no pattern of the built-in list is found
\* in comes back without the prefix
C8_Witness ==
    /\ NormalizeCalled
    /\ MERCHANT_PATTERNS = DEFAULT_MERCHANT_PATTERNS
    /\ last.description = "SQ *STORE-MART"
    /\ Hits(MERCHANT_PATTERNS, "STORE-MART") = {}
    /\ last.ret = "STORE-MART"

---------------------------------------------------------------------------
(* Loading a custom config.                                                *)

\* The module writes the default file and no other: a valid file that differs from
\* it is a custom config, and was there when the tables were loaded.
CustomInEffect == imported /\ config_file.kind = "valid" /\ config_file # DefaultConfigFile

CustomPatterns ==
    [i \in 1..Len(config_file.merchant_patterns) |->
        <<config_file.merchant_patterns[i].pattern, config_file.merchant_patterns[i].normalized>>]

\* C9: with a valid custom config, the merchant patterns load_custom_config returns
\* are the built-in list followed by the custom list, so a description in which a
\* built-in pattern and a custom pattern are both found gets the built-in name.
C9_DefaultsBeforeCustom ==
    CustomInEffect =>
        /\ MERCHANT_PATTERNS = DEFAULT_MERCHANT_PATTERNS \o CustomPatterns
        /\ last.op = "load_custom_config"
               => last.ret[1] = DEFAULT_MERCHANT_PATTERNS \o CustomPatterns
        /\ NormalizeCalled
               => LET text == Unprefixed(last.description)
                      builtin == Hits(DEFAULT_MERCHANT_PATTERNS, text)
                  IN (builtin # {} /\ Hits(CustomPatterns, text) # {})
                         => last.ret = Normalized(DEFAULT_MERCHANT_PATTERNS[Least(builtin)])

\* C9 witness: COLES EXPRESS, found by the built-in Coles pattern and by a custom
\* pattern, gets the custom name
C9_Witness ==
    /\ CustomInEffect
    /\ NormalizeCalled
    /\ last.description = "COLES EXPRESS"
    /\ Hits(DEFAULT_MERCHANT_PATTERNS, "COLES EXPRESS") # {}
    /\ MERCHANT_PATTERNS = CustomPatterns
    /\ last.ret = "Coles Express"

\* the map is the per-key merge of the defaults with the custom map
ShallowMerge(categories, custom) ==
    /\ \A name \in KeySet(DEFAULT_CATEGORIES) \ KeySet(custom) :
           /\ name \in KeySet(categories)
           /\ KeywordsOf(categories, name) = KeywordsOf(DEFAULT_CATEGORIES, name)
    /\ \A name \in KeySet(custom) :
           /\ name \in KeySet(categories)
           /\ KeywordsOf(categories, name) = KeywordsOf(custom, name)

\* C10: with a valid custom config, the category map load_custom_config returns is
\* the per-key merge of the defaults with the custom map: a default category the
\* custom config does not name keeps its keywords, every custom category is there,
\* and a key of both has the custom keywords.
C10_ShallowMerge ==
    CustomInEffect =>
        /\ ShallowMerge(CATEGORIES, config_file.categories)
        /\ last.op = "load_custom_config"
               => ShallowMerge(last.ret[2], config_file.categories)

\* C10 witness: the custom config of the fixture is loaded, and the default category
\* Fuel, which it does not name, is gone from the map
C10_Witness ==
    /\ CustomInEffect
    /\ config_file = FixtureConfigFile
    /\ "Fuel" \in KeySet(DEFAULT_CATEGORIES)
    /\ "Fuel" \notin KeySet(CATEGORIES)
    /\ CATEGORIES = config_file.categories

\* C11: when the config file is missing, unparseable or against the schema, loading
\* raises nothing, through the extractor's constructor included, and the patterns
\* and categories in effect are the built-in defaults.
C11_FailsSoft ==
    (imported /\ ~CustomInEffect) =>
        /\ MERCHANT_PATTERNS = DEFAULT_MERCHANT_PATTERNS
        /\ CATEGORIES = DEFAULT_CATEGORIES
        /\ last.op = "load_custom_config"
               => /\ last.exc = ""
                  /\ last.ret = <<DEFAULT_MERCHANT_PATTERNS, DEFAULT_CATEGORIES>>
        /\ last.op = "CreditCardStatementExtractor"
               => /\ last.exc = ""
                  /\ config = Config(<<DEFAULT_MERCHANT_PATTERNS, DEFAULT_CATEGORIES>>)

\* C11 witness: the file is unparseable, the module's tables are the defaults, and
\* the constructor has raised TypeError
C11_Witness ==
    /\ config_file = InvalidJsonFile
    /\ MERCHANT_PATTERNS = DEFAULT_MERCHANT_PATTERNS
    /\ last.op = "CreditCardStatementExtractor"
    /\ last.exc = "TypeError"
    /\ config = NoConfig

---------------------------------------------------------------------------
(* Loading a rules file.                                                   *)

\* C12: constructing the rules engine with the path of a file that does not exist
\* raises nothing and leaves an engine with no rules.
C12_MissingRulesFileIsEmpty ==
    (last.op = "TransactionRulesEngine" /\ last.file # None /\ last.file[1].kind = "missing")
        => /\ last.exc = ""
           /\ rules = <<>>

\* C12 witness: the engine held rules, the constructor was given a missing file, and
\* it raised ValueError
C12_Witness ==
    /\ last.op = "TransactionRulesEngine"
    /\ last.file = Some(RulesFile("missing", <<>>))
    /\ last.exc = "ValueError"
    /\ rules # <<>>

\* C13: load_rules raises whenever the file is not valid JSON or its top-level value
\* is not a sequence: an object (the empty one too), a string, a number or null.
C13_NonSequenceIsHardFailure ==
    (last.op = "load_rules"
        /\ last.file.kind \in {"invalid_json", "object", "string", "number", "null"})
        => last.exc # ""

\* C13 witness: the file holds the empty object, and load_rules has returned with an
\* empty rule list
C13_Witness ==
    /\ last.op = "load_rules"
    /\ last.file = RulesFile("object", <<>>)
    /\ last.exc = ""
    /\ rules = <<>>

---------------------------------------------------------------------------
(* The predicates of a rule, one at a time.                                *)

OnNewYearsDay(rule) == rule.date_condition = DateEq20240101

WithoutDate(rule) == [rule EXCEPT !.date_condition = None]

\* the rules with every rule dated 2024-01-01 left out, or kept without its date
DatedLeftOut(rs) == LET Test(r) == ~OnNewYearsDay(r) IN SelectSeq(rs, Test)
DatedAlways(rs) == [i \in 1..Len(rs) |-> IF OnNewYearsDay(rs[i]) THEN WithoutDate(rs[i]) ELSE rs[i]]

\* C14: a date predicate looks at the calendar date only: a rule with
\* date_condition {==, 2024-01-01} acts at every time of day of 2024-01-01 as the
\* same rule without a date predicate, and on 2024-01-02 as a rule that is not there.
C14_CalendarDateOnly ==
    Applied =>
        /\ DateKey(last.date) = 20240101
               => last.ret = FirstHolding(DatedAlways(rules), last.description,
                                          last.amount, last.date)
        /\ DateKey(last.date) = 20240102
               => last.ret = FirstHolding(DatedLeftOut(rules), last.description,
                                          last.amount, last.date)

\* C14 witness: at 23:59 on 2024-01-01 the dated rule gives its category
C14_Witness ==
    /\ Applied
    /\ rules = <<DateSpecific>>
    /\ last.description = "TEST TRANSACTION"
    /\ last.date = DateTime(2024, 1, 1, 23, 59)
    /\ last.ret = Some("Special")

\* the two characters are one letter, case aside
SameLetter(a, b) == LowerChar(a) = LowerChar(b)

\* the text holds the pattern, whole and unbroken, letter case aside
Contains(text, pattern) ==
    \E offset \in 0..(Len(text) - Len(pattern)) :
        \A j \in 1..Len(pattern) : SameLetter(Char(pattern, j), Char(text, offset + j))

LiteralTable ==
    [pattern \in RulePatterns, description \in Descriptions |-> Contains(description, pattern)]

\* the rule fully matches, its pattern read as plain text when is_regex is false
HoldsLiterally(rule, description, amount, date) ==
    /\ IF rule.is_regex THEN TextHolds(rule, description)
       ELSE LiteralTable[rule.pattern, description]
    /\ AmountHolds(rule, amount)
    /\ DateHolds(rule, date)

\* C15: a rule with is_regex false matches the descriptions that hold its whole
\* pattern as an unbroken run of characters, letter case aside, and no others; its
\* pattern is not read as a regular expression. "EXACT MATCH" matches "THIS IS AN
\* EXACT MATCH TEST" and does not match "EXACT".
C15_LiteralSubstring ==
    Applied =>
        /\ LET holding == {i \in 1..Len(rules) :
                              HoldsLiterally(rules[i], last.description, last.amount, last.date)}
           IN last.ret = IF holding = {} THEN None ELSE Some(rules[Least(holding)].category)
        /\ rules = <<ExactMatch>>
               => last.ret = IF last.description = "THIS IS AN EXACT MATCH TEST"
                             THEN Some("Test") ELSE None

\* C15 witness: a literal pattern with a dot, which as a regular expression would be
\* found in the description, is not found
C15_Witness ==
    /\ Applied
    /\ Len(rules) = 2 /\ rules[1].pattern = "UNKNOWN.STORE" /\ ~rules[1].is_regex
    /\ last.description = "UNKNOWN STORE"
    /\ re_search("UNKNOWN.STORE", "UNKNOWN STORE")
    /\ last.ret = Some("Shops")

\* C16: apply_rules returns None exactly when no rule of the engine fully matches
\* the transaction, with no rules at all in particular; "Other" never stands in for
\* the missing match.
C16_NoneIffNoMatch ==
    Applied =>
        /\ last.ret = None <=> \A i \in 1..Len(rules) : ~LastHolds(rules[i])
        /\ rules = <<>> => last.ret = None
        /\ last.ret = Some("Other") => \E i \in 1..Len(rules) : rules[i].category = "Other"

\* C16 witness: the only rule's pattern is found but its amount predicate fails, and
\* the answer is None
C16_Witness ==
    /\ Applied
    /\ rules = <<HighValueGroceries>>
    /\ last.description = "COLES SUPERMARKET"
    /\ last.amount = 50
    /\ last.ret = None

Called == last.op \in {"apply_rules", "_categorize_transaction",
                       "categorize_transaction", "normalize_merchant"}

\* C17: with an engine and a config that were built without error, apply_rules,
\* the resolver, categorize_transaction and normalize_merchant raise nothing for
\* any transaction, an empty description and a zero amount included.
C17_NothingRaises == Called => last.exc = ""

\* C17 witness: add_rule took a rule whose amount value is no number, and apply_rules
\* has raised ValueError for a transaction with a zero amount
C17_Witness ==
    /\ Applied
    /\ BadAmount \in Range(rules)
    /\ last.amount = 0
    /\ last.exc = "ValueError"

---------------------------------------------------------------------------
(* What the resolver and the pipeline produce.                             *)

\* C18 as stated: the category the resolver produces is a key of the category map
\* in effect or "Other", whatever custom rules are loaded.
C18_CategoryIsKeyOrOther ==
    Resolved => last.ret \in KeySet(config.categories) \cup {"Other"}

\* C18: the category the resolver produces is the category of a loaded custom rule
\* that fully matches the transaction, or a key of the category map in effect, or
\* "Other".
C18_CategoryIsRuleKeyOrOther ==
    Resolved =>
        \/ last.ret \in KeySet(config.categories) \cup {"Other"}
        \/ \E i \in 1..Len(rules) : LastHolds(rules[i]) /\ last.ret = rules[i].category

\* C18 witness: a custom rule matches and its category, which is no key of the map,
\* is what the resolver produces
C18_Witness ==
    /\ Resolved
    /\ last.ret = "Test Category"
    /\ last.ret \notin KeySet(config.categories) \cup {"Other"}
    /\ \E i \in 1..Len(rules) : LastHolds(rules[i]) /\ rules[i].category = "Test Category"

\* ---- processing a statement ----

\* the transaction lines clean_transactions keeps
Kept(lines) ==
    SelectSeq(lines, LAMBDA line : /\ line.kind = "transaction"
                                   /\ line.description \notin {"", "Transaction details"})

\* the path names an existing PDF file
NamesPdf(pdf) ==
    /\ pdf.exists
    /\ Len(pdf.path) >= 4
    /\ lower(SubSeq(pdf.path, Len(pdf.path) - 3, Len(pdf.path))) = ".pdf"

\* a call of process_statement that nothing but the program stands in the way of: a
\* PDF that reads, patterns that compile, the default output path, a disk that
\* takes the writes
Unhindered ==
    /\ last.op = "process_statement"
    /\ NamesPdf(last.pdf) /\ last.pdf.readable
    /\ config_file = FixtureConfigFile
    /\ last.output_path = None
    /\ last.csv_ok /\ last.debug_ok

HeaderHas(file, name) == \E i \in 1..Len(file.header) : file.header[i] = name

Field(file, row, name) == row[CHOOSE i \in 1..Len(file.header) : file.header[i] = name]

\* C19: process_statement on a statement with N extracted transactions completes
\* without error and writes a CSV whose header has Merchant and Category besides
\* Transaction Date, Transaction Details and Amount, followed by exactly N rows,
\* one per cleaned transaction, each with its merchant and category.
C19_CsvCarriesMerchantAndCategory ==
    Unhindered =>
        /\ last.exc = ""
        /\ csv_file # None
        /\ \A name \in {"Transaction Date", "Transaction Details", "Amount",
                        "Merchant", "Category"} : HeaderHas(csv_file[1], name)
        /\ Len(csv_file[1].rows) = Len(Kept(last.pdf.lines))
        /\ \A i \in 1..Len(csv_file[1].rows) :
               /\ Len(csv_file[1].rows[i]) = Len(csv_file[1].header)
               /\ Field(csv_file[1], csv_file[1].rows[i], "Transaction Details")
                      = Kept(last.pdf.lines)[i].description
               /\ Field(csv_file[1], csv_file[1].rows[i], "Merchant") # ""
               /\ Field(csv_file[1], csv_file[1].rows[i], "Category") # ""

\* a statement with a transaction was processed: the call left with OutputError and
\* the CSV holds the three-column header and no row
C19_Witness ==
    /\ Unhindered
    /\ Len(Kept(last.pdf.lines)) >= 1
    /\ last.exc = "OutputError"
    /\ csv_file = Some([header |-> <<"Transaction Date", "Transaction Details", "Amount">>,
                        rows |-> <<>>])

StageOrder ==
    <<"validate_pdf", "extract_text_from_pdf", "extract_transactions", "makedirs",
      "write_to_csv", "debug_file">>

\* the error type a stage raises as its own
OwnError(stage) ==
    IF stage \in {"validate_pdf", "extract_text_from_pdf"} THEN "PDFError"
    ELSE IF stage = "extract_transactions" THEN "TransactionExtractionError"
    ELSE IF stage = "makedirs" THEN "FileNotFoundError"
    ELSE IF stage = "write_to_csv" THEN "OutputError"
    ELSE "OSError"

Entered(s, stage) == \E i \in 1..Len(s) : s[i] = stage

\* C20: process_statement runs its stages in the order validate PDF, extract text,
\* extract transactions, write CSV, write debug file; a failure in a stage reaches
\* the caller with the stage's own error type and no later stage runs, so a call
\* that fails in validation or text extraction leaves the CSV as it was, and a PDF
\* that does not read gives PDFError whatever the output path is.
C20_StagesInOrder ==
    [][ /\ last'.op = "process_statement"
        /\ stages' = SubSeq(StageOrder, 1, Len(stages'))
        /\ Len(stages') >= 1
        /\ last'.exc = "" => Entered(stages', IF last'.debug_mode THEN "debug_file"
                                              ELSE "write_to_csv")
        /\ last'.exc # "" => last'.exc = OwnError(stages'[Len(stages')])
        /\ ~last'.debug_mode => ~Entered(stages', "debug_file")
        /\ ~NamesPdf(last'.pdf) => stages' = <<"validate_pdf">> /\ last'.exc = "PDFError"
        /\ NamesPdf(last'.pdf) /\ ~last'.pdf.readable =>
               stages' = <<"validate_pdf", "extract_text_from_pdf">> /\ last'.exc = "PDFError"
        /\ ~Entered(stages', "extract_transactions") => statement_text' = statement_text
        /\ ~Entered(stages', "write_to_csv") => csv_file' = csv_file
        /\ ~Entered(stages', "debug_file") \/ last'.exc # "" => debug_file' = debug_file
      ]_vars

\* a PDF that does not read was processed with a directory as the output path, after
\* an earlier call had written the CSV: PDFError, and the CSV is still there
C20_Witness ==
    /\ last.op = "process_statement"
    /\ NamesPdf(last.pdf) /\ ~last.pdf.readable
    /\ last.output_path = Some("reports/2024")
    /\ last.exc = "PDFError"
    /\ stages = <<"validate_pdf", "extract_text_from_pdf">>
    /\ csv_file # None

---------------------------------------------------------------------------
(* Conditions that cannot be evaluated.                                    *)

\* the rule has a date condition whose value is no YYYY-MM-DD calendar date
DateUnparseable(rule) ==
    /\ rule.date_condition # None
    /\ DOMAIN rule.date_condition[1] # {}
    /\ LET c == rule.date_condition[1]
       IN \/ "value" \notin DOMAIN c
          \/ c.value.type # "string"
          \/ strptime(c.value.str) = None

AmountsAreNumbers ==
    \A i \in 1..Len(rules) :
        rules[i].amount_condition = None \/ rules[i].amount_condition[1].value.type = "number"

\* C21: a rule whose date_condition value cannot be parsed as a YYYY-MM-DD calendar
\* date (wrong format, empty, missing, or not a string) never matches, and the
\* failure stays with that rule: apply_rules raises nothing and returns the first of
\* the other rules that fully matches, None when there is none.
C21_UnparseableDateIsLocal ==
    (Applied /\ AmountsAreNumbers) =>
        /\ last.exc = ""
        /\ LET holding == {i \in 1..Len(rules) :
                              /\ ~DateUnparseable(rules[i])
                              /\ LastHolds(rules[i])}
           IN last.ret = IF holding = {} THEN None ELSE Some(rules[Least(holding)].category)

\* C21 witness: the first rule whose pattern is found in the description has a
\* number as its date value, and apply_rules has raised TypeError
C21_Witness ==
    /\ Applied
    /\ AmountsAreNumbers
    /\ last.exc = "TypeError"
    /\ \E i \in 1..Len(rules) :
           /\ DateUnparseable(rules[i]) /\ TextHolds(rules[i], last.description)
           /\ \A k \in 1..(i - 1) : ~TextHolds(rules[k], last.description)

\* C22: a predicate whose operator is outside its supported set is false for every
\* transaction, so the rule never matches: the amount predicate knows exactly ==, >,
\* >=, <, <=, != with their numeric meaning, the date predicate exactly ==, >, >=,
\* <, <= (a date_condition with != never matches).
C22_UnsupportedOperatorIsFalse ==
    (Applied /\ Len(rules) = 1 /\ TextHolds(rules[1], last.description)) =>
        LET rule == rules[1]
            matched == last.ret = Some(rule.category)
        IN /\ last.exc = ""
           /\ ~matched => last.ret = None
           /\ rule.amount_condition # None =>
                  LET c == rule.amount_condition[1]
                  IN IF c.operator \in {"==", ">", ">=", "<", "<=", "!="}
                     THEN matched <=> Compare(c.operator, last.amount, c.value.num)
                     ELSE ~matched
           /\ rule.date_condition # None =>
                  LET c == rule.date_condition[1]
                  IN IF c.operator \in {"==", ">", ">=", "<", "<="}
                     THEN matched <=> Compare(c.operator, DateKey(last.date),
                                              DateKey(strptime(c.value.str)[1]))
                     ELSE ~matched

\* C22 witness: the one rule has a date_condition with != and a date other than the
\* transaction's, and apply_rules has returned None
C22_Witness ==
    /\ Applied
    /\ Len(rules) = 1 /\ TextHolds(rules[1], last.description)
    /\ rules[1].date_condition # None
    /\ rules[1].date_condition[1].operator = "!="
    /\ DateKey(strptime(rules[1].date_condition[1].value.str)[1]) # DateKey(last.date)
    /\ last.ret = None

---------------------------------------------------------------------------
(* The order of the category map.                                          *)

\* C23: when the description has keywords of several categories,
\* categorize_transaction returns the category that comes first in the order of the
\* category map in effect, wherever the keywords stand in the description and
\* whatever the alphabetical order of the names: with the defaults Dining wins over
\* Pet Expenses, Fuel over Pet Expenses and Groceries over Dining.
C23_FirstCategoryInMapOrder ==
    Categorized =>
        LET holders == Holders(CATEGORIES, Unprefixed(last.description))
        IN /\ holders # {} => last.ret = CATEGORIES[Least(holders)].name
           /\ CATEGORIES = DEFAULT_CATEGORIES =>
                  /\ last.description = "PET RESTAURANT" => last.ret = "Dining"
                  /\ last.description = "PETROL STATION" => last.ret = "Fuel"
                  /\ last.description = "CAFE COLES" => last.ret = "Groceries"

\* C23 witness: with the defaults, CAFE COLES has a keyword of Dining before one of
\* Groceries, and Groceries, which the map lists first, is returned
C23_Witness ==
    /\ Categorized
    /\ CATEGORIES = DEFAULT_CATEGORIES
    /\ last.description = "CAFE COLES"
    /\ LET holders == Holders(CATEGORIES, last.description)
       IN /\ \E i, j \in holders :
                 /\ CATEGORIES[i].name = "Groceries" /\ CATEGORIES[j].name = "Dining"
                 /\ i < j
    /\ last.ret = "Groceries"

---------------------------------------------------------------------------
(* The resolver beside the keyword categorizer.                            *)

\* what the keyword categorizer stands for: the first category of the map with a
\* keyword that occurs, letter case aside, in the description without its prefix
ByKeyword(categories, description) ==
    LET holders == Holders(categories, Unprefixed(description))
    IN IF holders = {} THEN "Other" ELSE categories[Least(holders)].name

\* C24: when no custom rule matches, the resolver returns what
\* categorize_transaction returns for the same description and the same category
\* map: the gateway prefix is stripped before matching and each keyword is matched
\* as a literal substring, letter case aside.
C24_ResolverAgreesWithCategorizer ==
    (Resolved /\ LastMatch = None) =>
        /\ last.exc = ""
        /\ last.ret = ByKeyword(config.categories, last.description)
        /\ last.ret = categorize_transaction(config.categories, last.description)

\* C24 witness: no rule matches PAYPAL *EBAY; the resolver finds "paypal" in the
\* prefix and gives Payments, the keyword categorizer gives Other
C24_Witness ==
    /\ Resolved /\ LastMatch = None
    /\ last.description = "PAYPAL *EBAY"
    /\ last.ret = "Payments"
    /\ ByKeyword(config.categories, last.description) = "Other"
    /\ categorize_transaction(config.categories, last.description) = "Other"

---------------------------------------------------------------------------
(* The reserved category.                                                  *)

\* C25: every category map load_custom_config returns, the defaults or the defaults
\* with a valid custom config, has "Other" with an empty keyword list, so "Other" is
\* never selected by a keyword and is returned only when no category matches.
C25_OtherIsReserved ==
    imported =>
        /\ \E i \in 1..Len(CATEGORIES) :
               CATEGORIES[i].name = "Other" /\ CATEGORIES[i].keywords = <<>>
        /\ (Categorized /\ last.ret = "Other") =>
               Holders(CATEGORIES, Unprefixed(last.description)) = {}

\* C25 witness: the custom config gives "Other" a keyword, the map in effect has it,
\* and MISC FEES is categorized "Other" by that keyword
C25_Witness ==
    /\ imported
    /\ config_file = OwnConfigFile
    /\ \E i \in 1..Len(CATEGORIES) :
           CATEGORIES[i].name = "Other" /\ CATEGORIES[i].keywords = <<"misc">>
    /\ Categorized
    /\ last.description = "MISC FEES"
    /\ last.ret = "Other"
    /\ Holders(CATEGORIES, last.description) # {}

---------------------------------------------------------------------------
(* Resolution as a read.                                                   *)

\* what the operation of the call gives with these rules and tables
Again(rs, cfg, patterns, categories, call) ==
    IF call.op = "apply_rules"
    THEN apply_rules(rs, call.description, call.amount, call.date)
    ELSE IF call.op = "_categorize_transaction"
    THEN _categorize_transaction(rs, cfg, call.description, call.amount, call.date)
    ELSE IF call.op = "normalize_merchant"
    THEN Return(normalize_merchant(patterns, call.description))
    ELSE Return(categorize_transaction(categories, call.description))

\* C26: resolution writes no shared state: apply_rules, the resolver,
\* normalize_merchant and categorize_transaction leave the rule list, the merchant
\* patterns and the category map as they were, so the call made again afterwards
\* gives the same result, and so does the resolution made before it.
C26_ResolutionWritesNothing ==
    [][ Called' =>
            /\ rules' = rules
            /\ MERCHANT_PATTERNS' = MERCHANT_PATTERNS
            /\ CATEGORIES' = CATEGORIES
            /\ config' = config
            /\ Again(rules', config', MERCHANT_PATTERNS', CATEGORIES', last')
                   = [exc |-> last'.exc, ret |-> last'.ret]
            /\ Called =>
                   Again(rules', config', MERCHANT_PATTERNS', CATEGORIES', last)
                       = [exc |-> last.exc, ret |-> last.ret]
      ]_vars

\* C26 witness: two rules are loaded and a rule decided the category the resolver
\* gave; the rules are all still there
C26_Witness ==
    /\ Resolved
    /\ Len(rules) = 2 /\ Len(history) = 2
    /\ LastMatch # None
    /\ last.ret = LastMatch[1]

---------------------------------------------------------------------------
(* The parsing patterns of an extractor.                                   *)

\* every item of the file's list is a dict with name, pattern and groups whose
\* pattern is a string with its parentheses paired
EveryItemValid(file) ==
    /\ file.kind = "list"
    /\ \A i \in 1..Len(file.items) :
           /\ "type" \notin DOMAIN file.items[i]
           /\ {"name", "pattern", "groups"} \subseteq DOMAIN file.items[i]
           /\ file.items[i].pattern.type = "string"
           /\ file.items[i].pattern.str \notin {"(\\d+"}

Constructed == last.op = "CreditCardStatementExtractor"

\* C27: loading custom parsing patterns is all or nothing and never fatal: with
\* parsing_patterns.json missing, not JSON, not a list, or with an item that lacks
\* name, pattern or groups or whose pattern does not compile, the extractor is
\* constructed without error and its patterns are the built-in ones; when every
\* item is valid the patterns are the custom list.
C27_ParsingPatternsAllOrNothing ==
    Constructed =>
        /\ last.exc = ""
        /\ IF EveryItemValid(last.file.patterns)
           THEN /\ Len(transaction_patterns) = Len(last.file.patterns.items)
                /\ \A i \in 1..Len(transaction_patterns) :
                       /\ transaction_patterns[i].name = last.file.patterns.items[i].name
                       /\ transaction_patterns[i].pattern.compiled
                              = last.file.patterns.items[i].pattern.str
           ELSE transaction_patterns = TRANSACTION_PATTERNS

\* C27 witness: parsing_patterns.json holds one valid pattern, and the constructor
\* has raised TypeError out of _load_config before it came to the file
C27_Witness ==
    /\ Constructed
    /\ EveryItemValid(last.file.patterns)
    /\ Len(last.file.patterns.items) = 1
    /\ last.exc = "TypeError"
    /\ transaction_patterns = <<>>

---------------------------------------------------------------------------
(* A load that fails.                                                      *)

LoadFailed == last.op = "load_rules" /\ last.exc # ""

\* C28: if load_rules raises, the rule list is exactly what it was before the call,
\* same rules in the same order, whatever the failure: a file that is missing or
\* not JSON, an entry that cannot be parsed, priorities that cannot be compared.
C28_FailedLoadLeavesRules == [][LoadFailed' => rules' = rules]_vars

\* C28 witness: a file of three rules, the last of them with a text priority, was
\* loaded; load_rules raised ValueError and the rule list is the three rules of
\* the file in the order of the file, a rule of priority 1 ahead of one of 5
C28_Witness ==
    /\ LoadFailed
    /\ last.exc = "ValueError"
    /\ last.file \in MixedPriorityFiles
    /\ Len(last.file.items) = 3
    /\ rules = parse_all(last.file.items)
    /\ rules[3].priority = TextPriority
    /\ rules[1].priority < rules[2].priority

---------------------------------------------------------------------------
(* The payment-gateway prefixes.                                           *)

Stripping == last.op \in {"normalize_merchant", "categorize_transaction"}

\* C29: after the prefix-stripping step of normalize_merchant and of
\* categorize_transaction the cleaned description never begins with "SQ *" or
\* "PAYPAL *", also when the description began with several prefixes in either
\* order: stripping the prefixes a second time changes nothing.
C29_StrippingIsIdempotent ==
    Stripping =>
        LET cleaned == strip_prefixes(last.description)
        IN /\ ~startswith(cleaned, "SQ *")
           /\ ~startswith(cleaned, "PAYPAL *")
           /\ strip_prefixes(cleaned) = cleaned

\* C29 witness: normalize_merchant was given a description with the PayPal prefix
\* ahead of the Square prefix, no pattern matched, and the name it returned still
\* begins with the Square prefix
C29_Witness ==
    /\ last.op = "normalize_merchant"
    /\ last.description = "PAYPAL *SQ *STORE-MART"
    /\ last.ret = "SQ *STORE-MART"

---------------------------------------------------------------------------
(* The default config file, written and read back.                         *)

LoadedConfig == last.op = "load_custom_config"

====
